---------------------------- MODULE Spec2Model ----------------------------
(***************************************************************************)
(* A model of mma_word_embeddings/embedding.py: the WordEmbedding wrapper  *)
(* and the EmbeddingEnsemble that replays its analyses over several        *)
(* embeddings and aggregates them.                                         *)
(*                                                                         *)
(* Representation.                                                         *)
(*  - A word (a Python str) is a sequence of one-character strings, so     *)
(*    that iterating over a str yields its characters as words.            *)
(*  - The embeddings are one-dimensional (vector_size = 1): a vector is a  *)
(*    rational number <<n, d>> in lowest terms with d > 0, and <<0, 0>>    *)
(*    stands for NaN.  All arithmetic is exact; floating-point rounding is *)
(*    not modelled.                                                        *)
(*  - A population standard deviation is kept as its radicand:             *)
(*    [sq |-> v] denotes sqrt(v).                                          *)
(*  - A call's outcome is [exc |-> the exception raised or "none",         *)
(*    value |-> what it returned].                                         *)
(***************************************************************************)
EXTENDS Integers, Sequences, FiniteSets, TLC

\* ------------------------------------------------------------------ bounds
\* longest list of paths handed to EmbeddingEnsemble(...)
MaxMembers == 2
\* longest list of test words handed to a projection
MaxTest == 2
\* longest list of words in one cluster of a dimension
MaxCluster == 2
\* longest list of word pairs handed to similarities
MaxPairs == 2

\* ------------------------------------------------------- the input universe
\* the strings "a" and "ab"; "b" occurs as a character of "ab" only and is in
\* no vocabulary
Words == { <<"a">>, <<"a", "b">> }

CharRank == [c \in {"a", "b"} |-> IF c = "a" THEN 1 ELSE 2]

\* Python's order on str: lexicographic on the characters
WordLess(u, v) ==
    \E k \in 1..(Len(u) + 1) :
        /\ \A j \in 1..(k - 1) : j <= Len(v) /\ u[j] = v[j]
        /\ \/ k = Len(u) + 1 /\ Len(v) >= k
           \/ k <= Len(u) /\ k <= Len(v) /\ CharRank[u[k]] < CharRank[v[k]]

\* the embedding files that may exist: two files of the same directory
Paths == { [dir |-> "m", name |-> "a"], [dir |-> "m", name |-> "b"] }

\* the raw (not normalised) vector each file stores for a word, when the file
\* holds that word
FileVectors(path, word) ==
    IF path.name = "a"
    THEN (IF word = <<"a">> THEN 2 ELSE -3)
    ELSE (IF word = <<"a">> THEN -1 ELSE -2)

\* all sequences over S of length at most n
SeqUpTo(S, n) == UNION { [1..k -> S] : k \in 0..n }

\* all orders in which the elements of a finite set can be listed
Orderings(S) ==
    { s \in [1..Cardinality(S) -> S] : \A i, j \in DOMAIN s : s[i] = s[j] => i = j }

\* ------------------------------------------------------------- arithmetic
Abs(n) == IF n < 0 THEN -n ELSE n

RECURSIVE GCD(_, _)
GCD(a, b) == IF b = 0 THEN a ELSE GCD(b, a % b)

NaN == <<0, 0>>
IsNaN(r) == r[2] = 0

\* The operators below bind each argument to a value once (x \in {x0}) before
\* using it, which keeps the evaluation of nested arithmetic linear.

\* the rational n/d, d # 0, in lowest terms
Rat(n0, d0) ==
    CHOOSE r \in { LET s == IF d < 0 THEN -1 ELSE 1
                       g == GCD(Abs(n), Abs(d))
                   IN  << (s * n) \div g, (s * d) \div g >> : n \in {n0}, d \in {d0} } : TRUE

RAdd(p0, q0) ==
    CHOOSE r \in { IF IsNaN(p) \/ IsNaN(q) THEN NaN
                   ELSE Rat(p[1] * q[2] + q[1] * p[2], p[2] * q[2]) :
                   p \in {p0}, q \in {q0} } : TRUE

RSub(p0, q0) ==
    CHOOSE r \in { IF IsNaN(p) \/ IsNaN(q) THEN NaN
                   ELSE Rat(p[1] * q[2] - q[1] * p[2], p[2] * q[2]) :
                   p \in {p0}, q \in {q0} } : TRUE

RMul(p0, q0) ==
    CHOOSE r \in { IF IsNaN(p) \/ IsNaN(q) THEN NaN ELSE Rat(p[1] * q[1], p[2] * q[2]) :
                   p \in {p0}, q \in {q0} } : TRUE

\* division by a count; a zero count gives 0/0 = NaN as numpy does
RDivInt(p0, k) ==
    CHOOSE r \in { IF IsNaN(p) \/ k = 0 THEN NaN ELSE Rat(p[1], p[2] * k) : p \in {p0} } : TRUE

RLess(p, q) == ~IsNaN(p) /\ ~IsNaN(q) /\ p[1] * q[2] < q[1] * p[2]

RECURSIVE RSum(_)
RSum(s) == IF Len(s) = 0 THEN <<0, 1>> ELSE RAdd(s[1], RSum(Tail(s)))

\* numpy.mean of a list of numbers: NaN for the empty list
np_mean(s0) == CHOOSE r \in { RDivInt(RSum(s), Len(s)) : s \in {s0} } : TRUE

\* the mean of the squared deviations from the mean, over Len(s) - ddof
Variance(s0, ddof) ==
    CHOOSE r \in { LET dev == [i \in 1..Len(s) |-> RMul(RSub(s[i], m), RSub(s[i], m))]
                   IN  RDivInt(RSum(dev), Len(s) - ddof) :
                   s \in {s0}, m \in {np_mean(s0)} } : TRUE

\* numpy.std of a list of numbers (population standard deviation, ddof = 0)
np_std(s) == [sq |-> Variance(s, 0)]

\* numpy.dot of two vectors of length one
np_dot(u, v) == RMul(u, v)

\* utils.normalize_vector: the vector divided by its Euclidean norm; the zero
\* vector gives 0/0 = NaN
normalize_vector(v0) ==
    CHOOSE r \in { IF IsNaN(v) \/ v[1] = 0 THEN NaN
                   ELSE <<(IF v[1] < 0 THEN -1 ELSE 1), 1>> : v \in {v0} } : TRUE

\* ---------------------------------------------------------- WordEmbedding
\* the outcomes KeyedVectors.load(path) can have: the file is absent, it is
\* there but cannot be read as a model, or it holds vectors for some words
FileStates ==
    { [state |-> "absent", vocab |-> {}], [state |-> "corrupt", vocab |-> {}] }
        \cup { [state |-> "model", vocab |-> S] : S \in SUBSET Words }

\* self.training_data is None, or the list of the corpus' sentences (docs)
None == [is_none |-> TRUE, docs |-> <<>>]

\* WordEmbedding(path) with no training data: the loaded object, or the
\* EmbeddingError the constructor raises when the load fails for any reason
WordEmbedding_init(path, file) ==
    IF file.state # "model"
    THEN [exc |-> "EmbeddingError", value |-> <<>>]
    ELSE [exc |-> "none",
          value |-> [path_to_embedding |-> path,
                     word_vectors |-> [w \in file.vocab |-> FileVectors(path, w)],
                     training_data |-> None]]

in_vocab(emb, word) == word \in DOMAIN emb.word_vectors

\* sorted(seq) for a list of distinct str
RECURSIVE sorted(_)
sorted(S) ==
    IF S = {} THEN <<>>
    ELSE LET least == CHOOSE w \in S : \A x \in S \ {w} : WordLess(w, x)
         IN  <<least>> \o sorted(S \ {least})

vocab(emb) == sorted(DOMAIN emb.word_vectors)

\* the unit vector of a word of the vocabulary
vector(emb, word) == normalize_vector(<<emb.word_vectors[word], 1>>)

\* the mean of the words' vectors, optionally normalised
centroid_of_vectors(emb, list_of_words, normalize) ==
    LET vecs == [i \in 1..Len(list_of_words) |-> vector(emb, list_of_words[i])]
        centroid == np_mean(vecs)
    IN  IF normalize THEN normalize_vector(centroid) ELSE centroid

similarity(emb, word1, word2) == np_dot(vector(emb, word1), vector(emb, word2))

\* ------------------------------------------------------ EmbeddingEnsemble
\* the attributes __init__ sets on the object
InitAttrs == {"list_of_embeddings", "description"}

\* paths = glob.glob(prefix + '*.emb'): the existing files of the directory
\* whose name starts with the stem (names are one character long)
GlobMatches(prefix, files) ==
    { p \in Paths : /\ files[p].state # "absent"
                    /\ p.dir = prefix.dir
                    /\ (prefix.stem = "" \/ prefix.stem = p.name) }

\* the loop over the paths: the first load that fails ends the construction
RECURSIVE LoadAll(_, _, _)
LoadAll(paths, files, loaded) ==
    IF Len(paths) = 0 THEN [exc |-> "none", value |-> loaded]
    ELSE LET emb == WordEmbedding_init(paths[1], files[paths[1]])
         IN  IF emb.exc # "none" THEN [exc |-> emb.exc, value |-> <<>>]
             ELSE LoadAll(Tail(paths), files, Append(loaded, emb.value))

\* EmbeddingEnsemble(path_to_embeddings): arg is [kind |-> "list", paths] or
\* [kind |-> "glob", prefix]; globbed is what glob.glob returns for the prefix
EmbeddingEnsemble_init(arg, files, globbed) ==
    LET paths == IF arg.kind = "list" THEN arg.paths ELSE globbed
    IN  IF arg.kind # "list" /\ Len(paths) = 0
        THEN [exc |-> "EmbeddingError", value |-> <<>>]
        ELSE LET got == LoadAll(paths, files, <<>>)
             IN  IF got.exc # "none" THEN got
                 ELSE [exc |-> "none",
                       value |-> [list_of_embeddings |-> got.value,
                                  attrs |-> InitAttrs]]

\* set(vocabs[0]).intersection(*vocabs)
shared_vocab_set(self) ==
    LET vocabs == [i \in 1..Len(self.list_of_embeddings) |->
                        vocab(self.list_of_embeddings[i])]
        asSet(v) == { v[k] : k \in 1..Len(v) }
    IN  { w \in asSet(vocabs[1]) : \A i \in 1..Len(vocabs) : w \in asSet(vocabs[i]) }

\* shared_vocab(): list(...) of that set lists it in an order of its own
\* choosing (order); vocabs[0] of an ensemble without members is an IndexError
shared_vocab(self, order) ==
    IF Len(self.list_of_embeddings) = 0
    THEN [exc |-> "IndexError", value |-> <<>>]
    ELSE [exc |-> "none", value |-> order]

\* pandas' DataFrame.std over a row: the sample standard deviation (ddof = 1)
pd_std(s) == [sq |-> Variance(s, 1)]

\* similarity(word1, word2)
Ensemble_similarity(self, word1, word2) ==
    LET embs == self.list_of_embeddings
    IN  IF \E i \in 1..Len(embs) : ~in_vocab(embs[i], word1) \/ ~in_vocab(embs[i], word2)
        THEN [exc |-> "KeyError", value |-> <<>>]
        ELSE IF "cols" \notin self.attrs
        THEN [exc |-> "AttributeError", value |-> <<>>]
        ELSE LET individual == [i \in 1..Len(embs) |-> similarity(embs[i], word1, word2)]
                 mean == np_mean(individual)
             IN  [exc |-> "none",
                  value |-> [ncols |-> Len(individual),
                             rows |-> << [sims |-> individual,
                                          MEAN |-> mean,
                                          STD |-> pd_std(Append(individual, mean))] >>]]

\* WordEmbedding.similarities(list_of_word_pairs): one row per pair, sorted by
\* ascending similarity; a KeyError when a word is not in the vocabulary
RECURSIVE InsertBySim(_, _)
InsertBySim(row, rows) ==
    IF Len(rows) = 0 THEN <<row>>
    ELSE IF RLess(row.sim, rows[1].sim) THEN <<row>> \o rows
    ELSE <<rows[1]>> \o InsertBySim(row, Tail(rows))

RECURSIVE SortBySim(_)
SortBySim(rows) ==
    IF Len(rows) = 0 THEN <<>>
    ELSE InsertBySim(rows[Len(rows)], SortBySim(SubSeq(rows, 1, Len(rows) - 1)))

similarities(emb, list_of_word_pairs) ==
    IF \E k \in 1..Len(list_of_word_pairs) :
            \/ ~in_vocab(emb, list_of_word_pairs[k][1])
            \/ ~in_vocab(emb, list_of_word_pairs[k][2])
    THEN [exc |-> "KeyError", value |-> <<>>]
    ELSE [exc |-> "none",
          value |-> SortBySim([k \in 1..Len(list_of_word_pairs) |->
                        [Word1 |-> list_of_word_pairs[k][1],
                         Word2 |-> list_of_word_pairs[k][2],
                         sim |-> similarity(emb, list_of_word_pairs[k][1],
                                            list_of_word_pairs[k][2])]])]

\* pd.merge(base_df, df, on=['Word1', 'Word2']): the inner join, in the order
\* of the left table's rows
RECURSIVE Merge(_, _)
Merge(base, df) ==
    IF Len(base) = 0 THEN <<>>
    ELSE LET same(r) == r.Word1 = base[1].Word1 /\ r.Word2 = base[1].Word2
             hits == SelectSeq(df, same)
         IN  [k \in 1..Len(hits) |->
                [Word1 |-> base[1].Word1, Word2 |-> base[1].Word2,
                 sims |-> Append(base[1].sims, hits[k].sim)]]
             \o Merge(Tail(base), df)

RECURSIVE MergeAll(_, _, _)
MergeAll(base, embs, pairs) ==
    IF Len(embs) = 0 THEN [exc |-> "none", value |-> base]
    ELSE LET df == similarities(embs[1], pairs)
         IN  IF df.exc # "none" THEN df
             ELSE MergeAll(Merge(base, df.value), Tail(embs), pairs)

\* similarities(list_of_word_pairs)
Ensemble_similarities(self, list_of_word_pairs) ==
    LET embs == self.list_of_embeddings
    IN  IF Len(embs) = 0 THEN [exc |-> "IndexError", value |-> <<>>]
        ELSE LET first == similarities(embs[1], list_of_word_pairs)
             IN  IF first.exc # "none" THEN first
                 ELSE LET base == [k \in 1..Len(first.value) |->
                                     [Word1 |-> first.value[k].Word1,
                                      Word2 |-> first.value[k].Word2,
                                      sims |-> <<first.value[k].sim>>]]
                          merged == MergeAll(base, Tail(embs), list_of_word_pairs)
                      IN  IF merged.exc # "none" THEN merged
                          ELSE IF "training_data" \notin self.attrs
                          THEN [exc |-> "AttributeError", value |-> <<>>]
                          ELSE [exc |-> "none",
                                value |-> [ncols |-> Len(embs),
                                           rows |-> [k \in 1..Len(merged.value) |->
                                              LET r == merged.value[k]
                                                  mean == np_mean(r.sims)
                                              IN  [Word1 |-> r.Word1, Word2 |-> r.Word2,
                                                   sims |-> r.sims, MEAN |-> mean,
                                                   STD |-> pd_std(Append(r.sims, mean))]]]]

\* ------------------------------------------- ensemble projections: inputs
\* A list entry is a str or a list of str: [tag |-> "str", ws |-> the word] or
\* [tag |-> "list", ws |-> the list of words].
Str(w) == [tag |-> "str", ws |-> w]
List(ws) == [tag |-> "list", ws |-> ws]

\* `for x in item`: the elements of a list, the characters of a str
Iterate(item) ==
    IF item.tag = "list" THEN item.ws ELSE [i \in 1..Len(item.ws) |-> <<item.ws[i]>>]

\* `if isinstance(test, str): test_words = [test]`
TestWords(test) == IF test.tag = "str" THEN <<test.ws>> ELSE test.ws

\* the for loop that splits a cluster's words by emb.in_vocab, appending to
\* one of two lists in the order met
RECURSIVE SplitByVocab(_, _, _, _)
SplitByVocab(emb, words, in_emb, not_in_emb) ==
    IF Len(words) = 0 THEN [in_emb |-> in_emb, not_in_emb |-> not_in_emb]
    ELSE IF in_vocab(emb, words[1])
    THEN SplitByVocab(emb, Tail(words), Append(in_emb, words[1]), not_in_emb)
    ELSE SplitByVocab(emb, Tail(words), in_emb, Append(not_in_emb, words[1]))

\* emb_idx: the members (numbered from 1 here, from 0 in the code) that have
\* the test word in their vocabulary, in ascending order
EmbIdx(self, test_word) ==
    LET embs == self.list_of_embeddings
        has(i) == in_vocab(embs[i], test_word)
    IN  SelectSeq([i \in 1..Len(embs) |-> i], has)

\* df.sort_values(cols[1:], ascending=False): descending by the columns in
\* order, NaN last, rows that tie in every column keep their order.
\* The columns of a row are mean and std of each dimension in turn.
SortKey(row) ==
    [k \in 1..(2 * Len(row.cells)) |->
        IF k % 2 = 1 THEN row.cells[(k + 1) \div 2].mean
        ELSE row.cells[k \div 2].std.sq]

\* x is placed before y in a descending column
Before(x, y) == (~IsNaN(x) /\ IsNaN(y)) \/ RLess(y, x)

RowBefore(r1, r2) ==
    LET k1 == SortKey(r1)
        k2 == SortKey(r2)
    IN  \E k \in 1..Len(k1) :
            /\ \A j \in 1..(k - 1) : ~Before(k1[j], k2[j]) /\ ~Before(k2[j], k1[j])
            /\ Before(k1[k], k2[k])

\* rows that tie stay in the order they had
RECURSIVE InsertRow(_, _)
InsertRow(row, rows) ==
    IF Len(rows) = 0 THEN <<row>>
    ELSE IF RowBefore(rows[1], row) THEN <<rows[1]>> \o InsertRow(row, Tail(rows))
    ELSE <<row>> \o rows

RECURSIVE sort_values(_)
sort_values(rows) ==
    IF Len(rows) = 0 THEN <<>> ELSE InsertRow(rows[1], sort_values(Tail(rows)))

\* `for dim in list(dimensions): cols.extend([dim, dim + "(std)"])`
RECURSIVE DimCols(_)
DimCols(dimensions) ==
    IF Len(dimensions) = 0 THEN <<>>
    ELSE << <<dimensions[1].name, "">>, <<dimensions[1].name, "(std)">> >>
            \o DimCols(Tail(dimensions))

\* ------------------------------------- projections_to_bipolar_dimensions
\* BipolarProcessDim without the `continue` on an empty right cluster
BipolarProcessDim_NoRightCheck(self, dim_words) ==
    LET embs == self.list_of_embeddings
        left(i) == SplitByVocab(embs[i], Iterate(dim_words[1]), <<>>, <<>>).in_emb
        right(i) == SplitByVocab(embs[i], Iterate(dim_words[2]), <<>>, <<>>).in_emb
        kept == { i \in 1..Len(embs) : left(i) # <<>> }
    IN  [i \in kept |-> <<left(i), right(i)>>]

\* processed_dims[dim_name] for one dimension: the members that keep a
\* non-empty left and a non-empty right cluster, each with its two clusters
BipolarProcessDim(self, dim_words) ==
    LET embs == self.list_of_embeddings
        left(i) == SplitByVocab(embs[i], Iterate(dim_words[1]), <<>>, <<>>).in_emb
        right(i) == SplitByVocab(embs[i], Iterate(dim_words[2]), <<>>, <<>>).in_emb
        kept == { i \in 1..Len(embs) : left(i) # <<>> /\ right(i) # <<>> }
    IN  [i \in kept |-> <<left(i), right(i)>>]

\* the test at the head of the loop over the dimensions, with the errors the
\* subscripts dim_words[0] and dim_words[1] raise on lists that are too short
BipolarShapeCheck(dim_words) ==
    IF Len(dim_words) = 2 THEN "none"
    ELSE IF Len(dim_words) = 0 THEN "IndexError"
    ELSE IF dim_words[1].tag # "list" THEN "ValueError"
    ELSE IF Len(dim_words) = 1 THEN "IndexError"
    ELSE IF dim_words[2].tag # "list" THEN "ValueError"
    ELSE "none"

\* the loop that fills processed_dims; done holds the dimensions processed
RECURSIVE BipolarProcess(_, _, _)
BipolarProcess(self, dimensions, done) ==
    IF Len(dimensions) = 0 THEN [exc |-> "none", value |-> done]
    ELSE LET check == BipolarShapeCheck(dimensions[1].words)
         IN  IF check # "none" THEN [exc |-> check, value |-> done]
             ELSE BipolarProcess(self, Tail(dimensions),
                     Append(done, BipolarProcessDim(self, dimensions[1].words)))

\* one member's projection of the test word on its version of the dimension
BipolarScore(emb, test_word, clusters, normalize_before) ==
    LET test_vec == vector(emb, test_word)
        centroid_left == centroid_of_vectors(emb, clusters[1], FALSE)
        centroid_right == centroid_of_vectors(emb, clusters[2], FALSE)
        diff == RSub(centroid_left, centroid_right)
    IN  np_dot(test_vec, IF normalize_before THEN normalize_vector(diff) ELSE diff)

\* the [mean, std] a row gets for one dimension; used lists the members whose
\* score went into results (it is not part of the table)
BipolarCell(self, test_word, emb_idx, processed, normalize_before) ==
    LET ok(i) == i \in DOMAIN processed
        used == SelectSeq(emb_idx, ok)
        results == [k \in 1..Len(used) |->
                       BipolarScore(self.list_of_embeddings[used[k]], test_word,
                                    processed[used[k]], normalize_before)]
    IN  CHOOSE c \in { [mean |-> np_mean(r), std |-> np_std(r), used |-> used] :
                        r \in {results} } : TRUE

\* BipolarRows without the `continue` on a test word that no member has
RECURSIVE BipolarRows_KeepsUnknownWords(_, _, _, _)
BipolarRows_KeepsUnknownWords(self, test_words, processed_dims, normalize_before) ==
    IF Len(test_words) = 0 THEN <<>>
    ELSE << [test_word |-> test_words[1],
             cells |-> [d \in 1..Len(processed_dims) |->
                           BipolarCell(self, test_words[1], EmbIdx(self, test_words[1]),
                                       processed_dims[d], normalize_before)]] >>
         \o BipolarRows_KeepsUnknownWords(self, Tail(test_words), processed_dims,
                                          normalize_before)

\* the loop over the test words: a word no member has gets no row
RECURSIVE BipolarRows(_, _, _, _)
BipolarRows(self, test_words, processed_dims, normalize_before) ==
    IF Len(test_words) = 0 THEN <<>>
    ELSE LET emb_idx == EmbIdx(self, test_words[1])
             rest == BipolarRows(self, Tail(test_words), processed_dims, normalize_before)
         IN  IF Len(emb_idx) = 0 THEN rest
             ELSE << [test_word |-> test_words[1],
                      cells |-> [d \in 1..Len(processed_dims) |->
                                    BipolarCell(self, test_words[1], emb_idx,
                                                processed_dims[d], normalize_before)]] >>
                  \o rest

Ensemble_projections_to_bipolar_dimensions(self, test, dimensions, normalize_before) ==
    LET test_words == TestWords(test)
        processed == BipolarProcess(self, dimensions, <<>>)
    IN  IF processed.exc # "none"
        THEN [exc |-> processed.exc, value |-> <<>>]
        ELSE IF Len(test_words) = 0
        \* cols is first assigned inside the loop over the test words
        THEN [exc |-> "UnboundLocalError", value |-> <<>>]
        ELSE [exc |-> "none",
              value |-> [cols |-> << <<"test_word", "">> >> \o DimCols(dimensions),
                         rows |-> sort_values(BipolarRows(self, test_words,
                                        processed.value, normalize_before)),
                         processed_dims |-> processed.value]]

\* ------------------------------------ projections_to_unipolar_dimensions
\* len(np.array(dim_words).shape) for a list of str (1, also when empty) or a
\* list of lists of one length (2); ragged lists are not among the inputs
NdArrayDims(dim_words) ==
    IF \A k \in 1..Len(dim_words) : dim_words[k].tag = "str" THEN 1 ELSE 2

\* processed_dims[dim_name] for one dimension: the members that keep a
\* non-empty cluster, each with its cluster
UnipolarProcessDim(self, dim_words) ==
    LET embs == self.list_of_embeddings
        cluster(i) == SplitByVocab(embs[i], Iterate(dim_words[1]), <<>>, <<>>).in_emb
        kept == { i \in 1..Len(embs) : cluster(i) # <<>> }
    IN  [i \in kept |-> cluster(i)]

RECURSIVE UnipolarProcess(_, _, _)
UnipolarProcess(self, dimensions, done) ==
    IF Len(dimensions) = 0 THEN [exc |-> "none", value |-> done]
    ELSE IF NdArrayDims(dimensions[1].words) # 1
    THEN [exc |-> "ValueError", value |-> done]
    ELSE IF Len(self.list_of_embeddings) > 0 /\ Len(dimensions[1].words) = 0
    \* dim_words[0] of an empty list, met in the loop over the members
    THEN [exc |-> "IndexError", value |-> done]
    ELSE UnipolarProcess(self, Tail(dimensions),
            Append(done, UnipolarProcessDim(self, dimensions[1].words)))

\* one member's projection of the test word on the centroid of a cluster
UnipolarScore(emb, test_word, cluster, normalize_before) ==
    LET test_vec == vector(emb, test_word)
        centroid == centroid_of_vectors(emb, cluster, FALSE)
    IN  np_dot(test_vec, IF normalize_before THEN normalize_vector(centroid) ELSE centroid)

UnipolarCell(self, test_word, emb_idx, processed, normalize_before) ==
    LET ok(i) == i \in DOMAIN processed
        used == SelectSeq(emb_idx, ok)
        results == [k \in 1..Len(used) |->
                       UnipolarScore(self.list_of_embeddings[used[k]], test_word,
                                     processed[used[k]], normalize_before)]
    IN  CHOOSE c \in { [mean |-> np_mean(r), std |-> np_std(r), used |-> used] :
                        r \in {results} } : TRUE

RECURSIVE UnipolarRows(_, _, _, _)
UnipolarRows(self, test_words, processed_dims, normalize_before) ==
    IF Len(test_words) = 0 THEN <<>>
    ELSE LET emb_idx == EmbIdx(self, test_words[1])
             rest == UnipolarRows(self, Tail(test_words), processed_dims, normalize_before)
         IN  IF Len(emb_idx) = 0 THEN rest
             ELSE << [test_word |-> test_words[1],
                      cells |-> [d \in 1..Len(processed_dims) |->
                                    UnipolarCell(self, test_words[1], emb_idx,
                                                 processed_dims[d], normalize_before)]] >>
                  \o rest

Ensemble_projections_to_unipolar_dimensions(self, test, dimensions, normalize_before) ==
    LET test_words == TestWords(test)
        processed == UnipolarProcess(self, dimensions, <<>>)
    IN  IF processed.exc # "none"
        THEN [exc |-> processed.exc, value |-> <<>>]
        ELSE IF Len(test_words) = 0
        THEN [exc |-> "UnboundLocalError", value |-> <<>>]
        ELSE [exc |-> "none",
              value |-> [cols |-> << <<"test_word", "">> >> \o DimCols(dimensions),
                         rows |-> sort_values(UnipolarRows(self, test_words,
                                        processed.value, normalize_before)),
                         processed_dims |-> processed.value]]

\* WordEmbedding.projections_to_unipolar_dimensions for one test word and one
\* dimension: the score, or the KeyError of a word that is not in the vocabulary
SingleUnipolarScore(emb, test_word, dim_cluster, normalize_before) ==
    IF ~in_vocab(emb, test_word) \/ \E k \in 1..Len(dim_cluster) : ~in_vocab(emb, dim_cluster[k])
    THEN [exc |-> "KeyError", value |-> NaN]
    ELSE [exc |-> "none",
          value |-> UnipolarScore(emb, test_word, dim_cluster, normalize_before)]

\* ------------------------------------------------------------------ state
VARIABLES
    ensemble,   \* the EmbeddingEnsemble object, NoObject before construction
    embedding,  \* the WordEmbedding object, NoEmbedding before construction
    last        \* the call that last returned: [op, args, exc, value]

vars == <<ensemble, embedding, last>>

NoObject == [list_of_embeddings |-> <<>>, attrs |-> {}]

NoEmbedding == [path_to_embedding |-> <<>>, word_vectors |-> <<>>, training_data |-> None]

Constructed == ensemble # NoObject

\* no call is pending: the caller has taken the last outcome
NoCall == [op |-> "none", args |-> <<>>, exc |-> "none", value |-> <<>>]

Init ==
    /\ ensemble = NoObject
    /\ embedding = NoEmbedding
    /\ last = NoCall

\* ----------------------------------------------------------------- inputs
Tests == { Str(w) : w \in Words } \cup { List(ws) : ws \in SeqUpTo(Words, MaxTest) }

Clusters == SeqUpTo(Words, MaxCluster)

OneWordLists == { List(<<w>>) : w \in Words }

\* bipolar cluster specifications: every pair of clusters, and every list of
\* up to three entries that are a str or a one-word list
BipolarSpecs ==
    { <<List(l), List(r)>> : l, r \in Clusters }
        \cup SeqUpTo({ Str(<<"a", "b">>) } \cup OneWordLists, 3)

\* dictionaries of one dimension, and of two dimensions of one-word clusters
\* of which the second may have one cluster or three
BipolarDimensions ==
    { << [name |-> "d1", words |-> s] >> : s \in BipolarSpecs }
        \cup { << [name |-> "d1", words |-> s], [name |-> "d2", words |-> t] >> :
                    s \in [1..2 -> OneWordLists],
                    t \in SeqUpTo(OneWordLists, 3) \ { <<>> } }

\* unipolar cluster specifications: every flat list of words, and the nested
\* lists [[]], [[w]]
UnipolarSpecs ==
    { [k \in 1..Len(c) |-> Str(c[k])] : c \in Clusters }
        \cup { <<List(<<>>)>> } \cup { <<l>> : l \in OneWordLists }

UnipolarDimensions ==
    { << [name |-> "d1", words |-> s] >> : s \in UnipolarSpecs }
        \cup { << [name |-> "d1", words |-> s], [name |-> "d2", words |-> t] >> :
                    s, t \in UnipolarSpecs }

GlobPrefixes == { [dir |-> d, stem |-> s] : d \in {"m", "n"}, s \in {"", "a"} }

\* ---------------------------------------------------------------- actions
Construct(arg, files, globbed) ==
    LET got == EmbeddingEnsemble_init(arg, files, globbed)
    IN  /\ ensemble' = IF got.exc = "none" THEN got.value ELSE ensemble
        /\ last' = [op |-> "init", args |-> [arg |-> arg, files |-> files],
                    exc |-> got.exc, value |-> <<>>]
        /\ UNCHANGED embedding

ConstructFromList ==
    /\ ~Constructed
    /\ last = NoCall
    /\ \E files \in [Paths -> FileStates], paths \in SeqUpTo(Paths, MaxMembers) :
          Construct([kind |-> "list", paths |-> paths, prefix |-> <<>>], files, <<>>)

ConstructFromGlob ==
    /\ ~Constructed
    /\ last = NoCall
    /\ \E files \in [Paths -> FileStates], prefix \in GlobPrefixes :
          \E globbed \in Orderings(GlobMatches(prefix, files)) :
              Construct([kind |-> "glob", paths |-> <<>>, prefix |-> prefix], files, globbed)

\* the caller takes the outcome of the last call; the object stays as it is
TakeResult ==
    /\ last.op # "none"
    /\ last' = NoCall
    /\ UNCHANGED <<ensemble, embedding>>

Ready == Constructed /\ last = NoCall

CallSharedVocab ==
    /\ Ready
    /\ \E order \in Orderings(IF Len(ensemble.list_of_embeddings) = 0 THEN {}
                              ELSE shared_vocab_set(ensemble)) :
          LET got == shared_vocab(ensemble, order)
          IN  last' = [op |-> "shared_vocab", args |-> <<>>,
                       exc |-> got.exc, value |-> got.value]
    /\ UNCHANGED <<ensemble, embedding>>

CallSimilarity ==
    /\ Ready
    /\ \E word1 \in Words, word2 \in Words :
          LET got == Ensemble_similarity(ensemble, word1, word2)
          IN  last' = [op |-> "similarity", args |-> <<word1, word2>>,
                       exc |-> got.exc, value |-> got.value]
    /\ UNCHANGED <<ensemble, embedding>>

CallSimilarities ==
    /\ Ready
    /\ \E pairs \in SeqUpTo(Words \X Words, MaxPairs) :
          LET got == Ensemble_similarities(ensemble, pairs)
          IN  last' = [op |-> "similarities", args |-> pairs,
                       exc |-> got.exc, value |-> got.value]
    /\ UNCHANGED <<ensemble, embedding>>

CallBipolar ==
    /\ Ready
    /\ \E test \in Tests, dimensions \in BipolarDimensions, normalize_before \in BOOLEAN :
          LET got == Ensemble_projections_to_bipolar_dimensions(
                         ensemble, test, dimensions, normalize_before)
          IN  last' = [op |-> "bipolar",
                       args |-> [test |-> test, dimensions |-> dimensions,
                                 normalize_before |-> normalize_before],
                       exc |-> got.exc, value |-> got.value]
    /\ UNCHANGED <<ensemble, embedding>>

CallUnipolar ==
    /\ Ready
    /\ \E test \in Tests, dimensions \in UnipolarDimensions, normalize_before \in BOOLEAN :
          LET got == Ensemble_projections_to_unipolar_dimensions(
                         ensemble, test, dimensions, normalize_before)
          IN  last' = [op |-> "unipolar",
                       args |-> [test |-> test, dimensions |-> dimensions,
                                 normalize_before |-> normalize_before],
                       exc |-> got.exc, value |-> got.value]
    /\ UNCHANGED <<ensemble, embedding>>

\* ---------------------------------------------------------- specifications
\* construction, shared_vocab, similarity and similarities
NextEnsemble ==
    \/ ConstructFromList
    \/ ConstructFromGlob
    \/ TakeResult
    \/ CallSharedVocab
    \/ CallSimilarity
    \/ CallSimilarities

SpecEnsemble == Init /\ [][NextEnsemble]_vars

\* construction and projections_to_bipolar_dimensions
NextBipolar ==
    \/ ConstructFromList
    \/ ConstructFromGlob
    \/ TakeResult
    \/ CallBipolar

SpecBipolar == Init /\ [][NextBipolar]_vars

\* construction and projections_to_unipolar_dimensions
NextUnipolar ==
    \/ ConstructFromList
    \/ ConstructFromGlob
    \/ TakeResult
    \/ CallUnipolar

SpecUnipolar == Init /\ [][NextUnipolar]_vars

\* every operation of the ensemble
Next ==
    \/ ConstructFromList
    \/ ConstructFromGlob
    \/ TakeResult
    \/ CallSharedVocab
    \/ CallSimilarity
    \/ CallSimilarities
    \/ CallBipolar
    \/ CallUnipolar

Spec == Init /\ [][Next]_vars

\* construction and both ensemble projections
NextProjections ==
    \/ ConstructFromList
    \/ ConstructFromGlob
    \/ TakeResult
    \/ CallBipolar
    \/ CallUnipolar

SpecProjections == Init /\ [][NextProjections]_vars

\* ------------------------------------------------------- claims: helpers
Members == ensemble.list_of_embeddings

Returned(op) == last.op = op /\ last.exc = "none"

InAll(word) == \A i \in 1..Len(Members) : in_vocab(Members[i], word)

InSome(word) == \E i \in 1..Len(Members) : in_vocab(Members[i], word)

Elements(seq) == { seq[k] : k \in 1..Len(seq) }

\* the words of a list that are in a member's vocabulary, in the list's order
InVocabOf(i, words) == LET has(w) == in_vocab(Members[i], w) IN SelectSeq(words, has)

\* ------------------------------------------------------------------- C7
\* the number of paths a construction was given: the length of the list, or
\* the number of files the glob pattern matches
GivenPaths ==
    IF last.args.arg.kind = "list" THEN Elements(last.args.arg.paths)
    ELSE GlobMatches(last.args.arg.prefix, last.args.files)

GivenCount ==
    IF last.args.arg.kind = "list" THEN Len(last.args.arg.paths)
    ELSE Cardinality(GivenPaths)

\* C7: constructing an ensemble raises EmbeddingError when no embedding is
\* found (an empty list of paths, or a pattern without match) and when a path
\* does not load; so a constructed ensemble has at least one member, and one
\* member per path given.
C7_ConstructionNeedsAnEmbedding ==
    last.op = "init" =>
        /\ GivenCount = 0 => last.exc = "EmbeddingError"
        /\ (\E p \in GivenPaths : last.args.files[p].state # "model")
                => last.exc = "EmbeddingError"
        /\ last.exc = "none" => Len(Members) >= 1 /\ Len(Members) = GivenCount

\* C7, the part the constructor keeps: a pattern without match and a path
\* that does not load raise EmbeddingError, and a constructed ensemble has one
\* member per path given.
C7_PatternAndLoadFailuresRaise ==
    last.op = "init" =>
        /\ (last.args.arg.kind = "glob" /\ GivenCount = 0) => last.exc = "EmbeddingError"
        /\ (\E p \in GivenPaths : last.args.files[p].state # "model")
                => last.exc = "EmbeddingError"
        /\ last.exc = "none" => Len(Members) = GivenCount

\* ------------------------------------------------------------------- C8
\* C8: on an ensemble of N >= 1 members and word pairs whose words are in all
\* members' vocabularies, similarities returns a table with N similarity
\* columns plus MEAN and STD, where each row's MEAN is the arithmetic mean of
\* the row's N similarities.
C8_SimilaritiesTable ==
    (/\ last.op = "similarities"
     /\ Len(Members) >= 1
     /\ \A k \in 1..Len(last.args) : InAll(last.args[k][1]) /\ InAll(last.args[k][2]))
        => /\ last.exc = "none"
           /\ last.value.ncols = Len(Members)
           /\ \A k \in 1..Len(last.value.rows) :
                 /\ Len(last.value.rows[k].sims) = Len(Members)
                 /\ last.value.rows[k].MEAN = np_mean(last.value.rows[k].sims)

\* ------------------------------------------------------------------- C9
\* C9: similarity(word1, word2), for words in all members' vocabularies of an
\* ensemble of N >= 1 members, returns one row with one similarity column per
\* member plus MEAN and STD, both computed over the members' similarities
\* only.
C9_SimilarityRow ==
    (/\ last.op = "similarity"
     /\ Len(Members) >= 1
     /\ InAll(last.args[1]) /\ InAll(last.args[2]))
        => /\ last.exc = "none"
           /\ last.value.ncols = Len(Members)
           /\ Len(last.value.rows) = 1
           /\ last.value.rows[1].sims =
                 [i \in 1..Len(Members) |-> similarity(Members[i], last.args[1], last.args[2])]
           /\ last.value.rows[1].MEAN = np_mean(last.value.rows[1].sims)
           /\ last.value.rows[1].STD = pd_std(last.value.rows[1].sims)

\* ------------------------------------------------------------------ C10
\* C10: shared_vocab returns, for every ensemble, exactly the words that are
\* in every member's vocabulary, each once.
C10_SharedVocabIsIntersection ==
    last.op = "shared_vocab" =>
        /\ last.exc = "none"
        /\ Elements(last.value) = { w \in Words : InAll(w) }
        /\ \A j, k \in 1..Len(last.value) : last.value[j] = last.value[k] => j = k

\* C10 for the ensembles that have a member
C10_HoldsWithAMember ==
    (last.op = "shared_vocab" /\ Len(Members) >= 1) =>
        /\ last.exc = "none"
        /\ Elements(last.value) = { w \in Words : InAll(w) }
        /\ \A j, k \in 1..Len(last.value) : last.value[j] = last.value[k] => j = k

\* --------------------------------------------- claims on the projections
Dimensions == last.args.dimensions

\* a bipolar specification of exactly two clusters (two lists of words)
TwoClusters(words) == Len(words) = 2 /\ words[1].tag = "list" /\ words[2].tag = "list"

\* the words of a flat unipolar specification
FlatWords(words) == [k \in 1..Len(words) |-> words[k].ws]

\* member i keeps a non-empty left and right cluster of a bipolar dimension
KeepsBoth(i, words) ==
    InVocabOf(i, words[1].ws) # <<>> /\ InVocabOf(i, words[2].ws) # <<>>

\* ------------------------------------------------------------------- C1
\* C1: unipolar projection on an ensemble of two members A and B, for a
\* dimension of one cluster word: when A's vocabulary has the test word and
\* the cluster word and B's has the test word but not the cluster word, the
\* score reported for (test word, dimension) is A's own projection score and
\* the standard deviation is 0.
C1_ScoreOfTheOnlyMember ==
    (Returned("unipolar") /\ Len(Members) = 2) =>
        \A A \in 1..2, d \in 1..Len(Dimensions), t \in 1..Len(TestWords(last.args.test)) :
            LET B == 3 - A
                w == TestWords(last.args.test)[t]
                words == FlatWords(Dimensions[d].words)
            IN  (/\ Len(words) = 1
                 /\ in_vocab(Members[A], w) /\ in_vocab(Members[A], words[1])
                 /\ in_vocab(Members[B], w) /\ ~in_vocab(Members[B], words[1]))
                    => /\ \E k \in 1..Len(last.value.rows) : last.value.rows[k].test_word = w
                       /\ \A k \in 1..Len(last.value.rows) :
                             last.value.rows[k].test_word = w =>
                                /\ last.value.rows[k].cells[d].mean =
                                      SingleUnipolarScore(Members[A], w, words,
                                            last.args.normalize_before).value
                                /\ last.value.rows[k].cells[d].std = [sq |-> <<0, 1>>]

\* ------------------------------------------------------------------- C2
\* C2: in the unipolar projection, the cluster used for a member is the
\* sub-list of the dimension's words that are in the member's vocabulary, and
\* the member is left out of the dimension's aggregate exactly when that
\* sub-list is empty.
C2_UnipolarClusterIsTheVocabularyPart ==
    Returned("unipolar") =>
        \A d \in 1..Len(Dimensions), i \in 1..Len(Members) :
            LET mine == InVocabOf(i, FlatWords(Dimensions[d].words))
                processed == last.value.processed_dims[d]
            IN  /\ i \in DOMAIN processed <=> mine # <<>>
                /\ i \in DOMAIN processed => processed[i] = mine
                /\ \A k \in 1..Len(last.value.rows) :
                      i \in Elements(last.value.rows[k].cells[d].used)
                          <=> (in_vocab(Members[i], last.value.rows[k].test_word)
                               /\ mine # <<>>)

\* ------------------------------------------------------------------- C3
\* C3: in the bipolar projection, the left and right cluster used for a member
\* are the words of the dimension's left and right cluster that are in the
\* member's vocabulary, and the member is left out of the dimension's
\* aggregate exactly when one of the two is empty.
C3_BipolarClustersAreTheVocabularyParts ==
    Returned("bipolar") =>
        \A d \in 1..Len(Dimensions), i \in 1..Len(Members) :
            LET words == Dimensions[d].words
                processed == last.value.processed_dims[d]
            IN  (Len(words) >= 2 /\ words[1].tag = "list" /\ words[2].tag = "list") =>
                    /\ i \in DOMAIN processed <=> KeepsBoth(i, words)
                    /\ i \in DOMAIN processed =>
                          processed[i] = << InVocabOf(i, words[1].ws), InVocabOf(i, words[2].ws) >>
                    /\ \A k \in 1..Len(last.value.rows) :
                          i \in Elements(last.value.rows[k].cells[d].used)
                              <=> (in_vocab(Members[i], last.value.rows[k].test_word)
                                   /\ KeepsBoth(i, words))

\* a table where member 1 keeps one of two left words and scores a test word
\* alone, and member 2, which has a word of the left cluster but none of the
\* right one, is left out of the score of a test word it has
C3_Witness ==
    /\ Returned("bipolar")
    /\ Len(Members) = 2
    /\ TwoClusters(Dimensions[1].words)
    /\ Len(Dimensions[1].words[1].ws) = 2
    /\ 1 \in DOMAIN last.value.processed_dims[1]
    /\ Len(last.value.processed_dims[1][1][1]) = 1
    /\ InVocabOf(2, Dimensions[1].words[1].ws) # <<>>
    /\ InVocabOf(2, Dimensions[1].words[2].ws) = <<>>
    /\ Dimensions[1].words[2].ws # <<>>
    /\ \E k \in 1..Len(last.value.rows) : last.value.rows[k].cells[1].used = <<1>>
    /\ \E k \in 1..Len(last.value.rows) :
          /\ in_vocab(Members[2], last.value.rows[k].test_word)
          /\ 2 \notin Elements(last.value.rows[k].cells[1].used)

\* ------------------------------------------------------------------- C4
\* C4: the bipolar projection with every dimension made of exactly two lists
\* of words completes whatever the vocabularies, test words and cluster words
\* are, and each reported score aggregates exactly the members that have the
\* test word and are not left out of the dimension.
C4_BipolarAlwaysCompletes ==
    (last.op = "bipolar" /\ \A d \in 1..Len(Dimensions) : TwoClusters(Dimensions[d].words)) =>
        /\ last.exc = "none"
        /\ \A k \in 1..Len(last.value.rows), d \in 1..Len(Dimensions) :
              Elements(last.value.rows[k].cells[d].used) =
                  { i \in 1..Len(Members) :
                        /\ in_vocab(Members[i], last.value.rows[k].test_word)
                        /\ KeepsBoth(i, Dimensions[d].words) }

\* C4 for the calls that are given at least one test word
C4_HoldsWithATestWord ==
    (/\ last.op = "bipolar"
     /\ Len(TestWords(last.args.test)) >= 1
     /\ \A d \in 1..Len(Dimensions) : TwoClusters(Dimensions[d].words)) =>
        /\ last.exc = "none"
        /\ \A k \in 1..Len(last.value.rows), d \in 1..Len(Dimensions) :
              Elements(last.value.rows[k].cells[d].used) =
                  { i \in 1..Len(Members) :
                        /\ in_vocab(Members[i], last.value.rows[k].test_word)
                        /\ KeepsBoth(i, Dimensions[d].words) }

\* ------------------------------------------------------------------- C5
Occurrences(seq, x) == Cardinality({ k \in 1..Len(seq) : seq[k] = x })

RowWords == [k \in 1..Len(last.value.rows) |-> last.value.rows[k].test_word]

\* C5: in the table either ensemble projection returns, a test word that is in
\* no member's vocabulary has no row, and a test word that is in some member's
\* vocabulary has one row per occurrence in the list of test words.
C5_OneRowPerKnownTestWord ==
    (Returned("bipolar") \/ Returned("unipolar")) =>
        /\ Elements(RowWords) \subseteq Elements(TestWords(last.args.test))
        /\ \A w \in Elements(TestWords(last.args.test)) :
              Occurrences(RowWords, w) =
                  IF InSome(w) THEN Occurrences(TestWords(last.args.test), w) ELSE 0

\* a table for two test words of which the first is in no member's vocabulary
\* and the second, in some member's, has the only row
C5_Witness ==
    /\ Returned("bipolar") \/ Returned("unipolar")
    /\ Len(TestWords(last.args.test)) = 2
    /\ ~InSome(TestWords(last.args.test)[1])
    /\ InSome(TestWords(last.args.test)[2])
    /\ Len(last.value.rows) = 1

\* ------------------------------------------------------------------- C6
\* C6 on the two examples the claim gives: a ValueError for a dimension given
\* as three clusters, and for one given as two entries that are not both lists
C6_ThreeClustersOrTwoStringsRaise ==
    (/\ last.op = "bipolar"
     /\ Len(TestWords(last.args.test)) >= 1
     /\ Len(Dimensions) = 1
     /\ \/ Len(Dimensions[1].words) = 3 /\ \A k \in 1..3 : Dimensions[1].words[k].tag = "list"
        \/ Len(Dimensions[1].words) = 2 /\ \E k \in 1..2 : Dimensions[1].words[k].tag = "str")
        => last.exc = "ValueError"

\* C6: the bipolar projection raises ValueError whenever a dimension is not
\* given as exactly two clusters (two lists of words), before it computes
\* anything.
C6_BadShapeRaisesValueError ==
    (last.op = "bipolar" /\ \E d \in 1..Len(Dimensions) : ~TwoClusters(Dimensions[d].words))
        => last.exc = "ValueError"


\* =========================================================================
\* WordEmbedding: the training corpus
\* =========================================================================
\* most lines a training file has
MaxLines == 2
\* largest window n handed to context_in_training_data
MaxN == 2
\* longest list of words handed to sort_by_frequency_in_training_data
MaxList == 2

\* a line of a training file is a str: a sequence of characters
TextLines ==
    { <<"a", " ", "a", "b", " ", "a", "b">>,
      <<"a", "b", " ", "a">>,
      <<>>,
      <<" ", "a", " ", " ", "a", " ">> }

\* the training files that may exist: no file, or a file of some lines
TextFiles ==
    { [state |-> "absent", lines |-> <<>>] }
        \cup { [state |-> "text", lines |-> ls] : ls \in SeqUpTo(TextLines, MaxLines) }

\* line.strip().split(): the maximal runs of characters that are not blanks
RECURSIVE split(_, _, _)
split(line, token, tokens) ==
    IF Len(line) = 0
    THEN (IF token = <<>> THEN tokens ELSE Append(tokens, token))
    ELSE IF line[1] = " "
    THEN split(Tail(line), <<>>, IF token = <<>> THEN tokens ELSE Append(tokens, token))
    ELSE split(Tail(line), Append(token, line[1]), tokens)

\* load_training_data(path_training_data): path is <<>> for None or <<p>>;
\* opening a file that is not there raises before anything is assigned
load_training_data(self, path, file) ==
    IF path = <<>> THEN [exc |-> "none", value |-> self]
    ELSE IF file.state = "absent" THEN [exc |-> "FileNotFoundError", value |-> self]
    ELSE [exc |-> "none",
          value |-> [self EXCEPT !.training_data =
                        [is_none |-> FALSE,
                         docs |-> [i \in 1..Len(file.lines) |->
                                        split(file.lines[i], <<>>, <<>>)]]]]

\* WordEmbedding(path_to_embedding, path_training_data)
WordEmbedding_new(path, file, path_training_data, text) ==
    LET loaded == WordEmbedding_init(path, file)
    IN  IF loaded.exc # "none" THEN loaded
        ELSE LET got == load_training_data(loaded.value, path_training_data, text)
             IN  IF got.exc # "none" THEN [exc |-> got.exc, value |-> <<>>] ELSE got

\* seq[start:stop] of Python, indices counted from 0: a negative index counts
\* from the end, and both are clamped to the sequence
Slice(seq, start, stop) ==
    LET norm(i) == IF i < 0 THEN (IF i + Len(seq) < 0 THEN 0 ELSE i + Len(seq))
                   ELSE (IF i > Len(seq) THEN Len(seq) ELSE i)
    IN  SubSeq(seq, norm(start) + 1, norm(stop))

\* " ".join(tokens)
RECURSIVE join(_)
join(tokens) ==
    IF Len(tokens) = 0 THEN <<>>
    ELSE IF Len(tokens) = 1 THEN tokens[1]
    ELSE tokens[1] \o <<" ">> \o join(Tail(tokens))

\* start = 0 if (idx - n < 0) else idx - n, without the clipping
ContextStart_NoClip(idx, n) == idx - n

\* start = 0 if (idx - n < 0) else idx - n
ContextStart(idx, n) == IF idx - n < 0 THEN 0 ELSE idx - n

\* stop = len(sentence)-1 if (idx + n > len(sentence)-1) else idx + n
ContextStop(sentence, idx, n) ==
    IF idx + n > Len(sentence) - 1 THEN Len(sentence) - 1 ELSE idx + n

\* the strings one sentence contributes, idx counted from 0 as enumerate does
RECURSIVE ContextOfSentence(_, _, _, _)
ContextOfSentence(sentence, word, n, idx) ==
    IF idx >= Len(sentence) THEN <<>>
    ELSE (IF word = sentence[idx + 1]
          THEN << join(Slice(sentence, ContextStart(idx, n),
                             ContextStop(sentence, idx, n) + 1)) >>
          ELSE <<>>)
         \o ContextOfSentence(sentence, word, n, idx + 1)

RECURSIVE ContextOfDocs(_, _, _)
ContextOfDocs(docs, word, n) ==
    IF Len(docs) = 0 THEN <<>>
    ELSE ContextOfSentence(docs[1], word, n, 0) \o ContextOfDocs(Tail(docs), word, n)

\* context_in_training_data(word, n)
context_in_training_data(self, word, n) ==
    IF self.training_data.is_none THEN [exc |-> "ValueError", value |-> <<>>]
    ELSE [exc |-> "none", value |-> ContextOfDocs(self.training_data.docs, word, n)]

\* the flat list of the corpus' tokens
RECURSIVE Flatten(_)
Flatten(docs) == IF Len(docs) = 0 THEN <<>> ELSE docs[1] \o Flatten(Tail(docs))

\* the two nested loops that count the tokens equal to word
CountIn(docs, word) ==
    LET is(t) == t = word IN Len(SelectSeq(Flatten(docs), is))

\* frequency_in_training_data(word)
frequency_in_training_data(self, word) ==
    IF self.training_data.is_none THEN [exc |-> "ValueError", value |-> 0]
    ELSE [exc |-> "none", value |-> CountIn(self.training_data.docs, word)]

\* res.sort_values(by='Frequency', ascending=False): rows of equal frequency
\* keep their order
RECURSIVE InsertByFrequency(_, _)
InsertByFrequency(row, rows) ==
    IF Len(rows) = 0 THEN <<row>>
    ELSE IF rows[1].Frequency > row.Frequency
    THEN <<rows[1]>> \o InsertByFrequency(row, Tail(rows))
    ELSE <<row>> \o rows

RECURSIVE SortByFrequency(_)
SortByFrequency(rows) ==
    IF Len(rows) = 0 THEN <<>> ELSE InsertByFrequency(rows[1], SortByFrequency(Tail(rows)))

\* sort_by_frequency_in_training_data(list_of_words): the list comprehension
\* calls frequency_in_training_data once per word, so not at all for []
sort_by_frequency_in_training_data(self, list_of_words) ==
    LET freqs == [k \in 1..Len(list_of_words) |->
                      frequency_in_training_data(self, list_of_words[k])]
    IN  IF \E k \in 1..Len(freqs) : freqs[k].exc # "none"
        THEN [exc |-> "ValueError", value |-> <<>>]
        ELSE [exc |-> "none",
              value |-> SortByFrequency([k \in 1..Len(list_of_words) |->
                            [Word |-> list_of_words[k], Frequency |-> freqs[k].value]])]

\* Counter(flat_training_data): the distinct tokens in the order in which they
\* first occur
RECURSIVE CounterKeys(_, _)
CounterKeys(flat, keys) ==
    IF Len(flat) = 0 THEN keys
    ELSE CounterKeys(Tail(flat),
                     IF \E k \in 1..Len(keys) : keys[k] = flat[1] THEN keys
                     ELSE Append(keys, flat[1]))

\* DataFrame.head(n): the first n rows, all but the last -n for a negative n
head(rows, n) ==
    IF n >= 0 THEN SubSeq(rows, 1, IF n > Len(rows) THEN Len(rows) ELSE n)
    ELSE SubSeq(rows, 1, IF Len(rows) + n < 0 THEN 0 ELSE Len(rows) + n)

\* vocab_sorted_by_frequency_in_training_data(first_n, more_frequent_than):
\* an argument is <<>> for None or <<k>>
vocab_sorted_by_frequency_in_training_data(self, first_n, more_frequent_than0) ==
    IF self.training_data.is_none THEN [exc |-> "ValueError", value |-> <<>>]
    ELSE LET more_frequent_than == IF more_frequent_than0 = <<0>> THEN <<>>
                                   ELSE more_frequent_than0
             keys == CounterKeys(Flatten(self.training_data.docs), <<>>)
             res == [k \in 1..Len(keys) |->
                        [Word |-> keys[k],
                         Frequency |-> CountIn(self.training_data.docs, keys[k])]]
             res1 == IF first_n # <<>> THEN head(res, first_n[1]) ELSE res
             above(r) == r.Frequency > more_frequent_than[1]
         IN  [exc |-> "none",
              value |-> IF more_frequent_than # <<>> THEN SelectSeq(res1, above) ELSE res1]

\* training_data_size()
training_data_size(self) ==
    IF self.training_data.is_none THEN [exc |-> "ValueError", value |-> 0]
    ELSE [exc |-> "none", value |-> Len(Flatten(self.training_data.docs))]


\* ------------------------------------------- WordEmbedding: state machine
\* the optional arguments: <<>> stands for None
TrainingPaths == { <<>>, <<"t">> }
FirstNs == { <<>>, <<-1>>, <<0>>, <<1>>, <<2>> }
Thresholds == { <<>>, <<0>>, <<1>>, <<2>> }

ConstructEmbedding ==
    /\ embedding = NoEmbedding
    /\ last.op = "none"
    /\ \E path \in Paths, file \in FileStates, tpath \in TrainingPaths, text \in TextFiles :
          LET got == WordEmbedding_new(path, file, tpath, text)
          IN  /\ embedding' = IF got.exc = "none" THEN got.value ELSE embedding
              /\ last' = [op |-> "new",
                          args |-> [path |-> path, file |-> file,
                                    path_training_data |-> tpath, text |-> text],
                          exc |-> got.exc, value |-> <<>>]
    /\ UNCHANGED ensemble

ReadyEmbedding == embedding # NoEmbedding /\ last.op = "none"

CallLoadTrainingData ==
    /\ ReadyEmbedding
    /\ \E tpath \in TrainingPaths, text \in TextFiles :
          LET got == load_training_data(embedding, tpath, text)
          IN  /\ embedding' = got.value
              /\ last' = [op |-> "load_training_data",
                          args |-> [path_training_data |-> tpath, text |-> text],
                          exc |-> got.exc, value |-> <<>>]
    /\ UNCHANGED ensemble

CallContext ==
    /\ ReadyEmbedding
    /\ \E word \in Words, n \in 0..MaxN :
          LET got == context_in_training_data(embedding, word, n)
          IN  last' = [op |-> "context_in_training_data",
                       args |-> [word |-> word, n |-> n],
                       exc |-> got.exc, value |-> got.value]
    /\ UNCHANGED <<ensemble, embedding>>

CallFrequency ==
    /\ ReadyEmbedding
    /\ \E word \in Words :
          LET got == frequency_in_training_data(embedding, word)
          IN  last' = [op |-> "frequency_in_training_data", args |-> [word |-> word],
                       exc |-> got.exc, value |-> got.value]
    /\ UNCHANGED <<ensemble, embedding>>

CallSortByFrequency ==
    /\ ReadyEmbedding
    /\ \E list_of_words \in SeqUpTo(Words, MaxList) :
          LET got == sort_by_frequency_in_training_data(embedding, list_of_words)
          IN  last' = [op |-> "sort_by_frequency_in_training_data",
                       args |-> [list_of_words |-> list_of_words],
                       exc |-> got.exc, value |-> got.value]
    /\ UNCHANGED <<ensemble, embedding>>

CallVocabSortedByFrequency ==
    /\ ReadyEmbedding
    /\ \E first_n \in FirstNs, more_frequent_than \in Thresholds :
          LET got == vocab_sorted_by_frequency_in_training_data(
                         embedding, first_n, more_frequent_than)
          IN  last' = [op |-> "vocab_sorted_by_frequency_in_training_data",
                       args |-> [first_n |-> first_n,
                                 more_frequent_than |-> more_frequent_than],
                       exc |-> got.exc, value |-> got.value]
    /\ UNCHANGED <<ensemble, embedding>>

CallTrainingDataSize ==
    /\ ReadyEmbedding
    /\ LET got == training_data_size(embedding)
       IN  last' = [op |-> "training_data_size", args |-> <<>>,
                    exc |-> got.exc, value |-> got.value]
    /\ UNCHANGED <<ensemble, embedding>>

\* construction of a WordEmbedding and the operations on its training corpus
NextCorpus ==
    \/ ConstructEmbedding
    \/ TakeResult
    \/ CallLoadTrainingData
    \/ CallContext
    \/ CallFrequency
    \/ CallSortByFrequency
    \/ CallVocabSortedByFrequency
    \/ CallTrainingDataSize

SpecCorpus == Init /\ [][NextCorpus]_vars

\* ------------------------------------------------------------------ C11
CorpusStatistics ==
    { "frequency_in_training_data", "context_in_training_data",
      "sort_by_frequency_in_training_data",
      "vocab_sorted_by_frequency_in_training_data", "training_data_size" }

\* C11: on a WordEmbedding without a training corpus, each of the five corpus
\* statistics raises, whatever its arguments (an empty list of words
\* included); none returns a result.
C11_NoCorpusNoStatistics ==
    (last.op \in CorpusStatistics /\ embedding.training_data.is_none)
        => last.exc # "none"

\* C11 but for sort_by_frequency_in_training_data([]): every other call of a
\* corpus statistic without a corpus raises ValueError
C11_HoldsButForTheEmptyList ==
    (/\ last.op \in CorpusStatistics
     /\ embedding.training_data.is_none
     /\ ~(last.op = "sort_by_frequency_in_training_data"
            /\ last.args.list_of_words = <<>>))
        => last.exc = "ValueError"

\* ------------------------------------------------------------------ C12
Max(a, b) == IF a > b THEN a ELSE b
Min(a, b) == IF a < b THEN a ELSE b

\* the positions of a sentence that hold the word, ascending (from 1)
PositionsOf(sentence, word) ==
    LET holds(i) == sentence[i] = word
    IN  SelectSeq([i \in 1..Len(sentence) |-> i], holds)

\* the clipped windows around the word's occurrences in one sentence
WindowsOf(sentence, word, n) ==
    LET at == PositionsOf(sentence, word)
    IN  [k \in 1..Len(at) |->
            join(SubSeq(sentence, Max(1, at[k] - n), Min(Len(sentence), at[k] + n)))]

RECURSIVE WindowsOfCorpus(_, _, _)
WindowsOfCorpus(docs, word, n) ==
    IF Len(docs) = 0 THEN <<>>
    ELSE WindowsOf(docs[1], word, n) \o WindowsOfCorpus(Tail(docs), word, n)

\* C12: context_in_training_data(word, n) returns one string per occurrence
\* of word in the corpus, in corpus order; the string of an occurrence is the
\* sentence's tokens from n before it to n after it, clipped at the two ends
\* of the sentence, joined by single blanks.
C12_ContextIsTheClippedWindows ==
    Returned("context_in_training_data")
        => last.value = WindowsOfCorpus(embedding.training_data.docs,
                                        last.args.word, last.args.n)

\* a call that found the word at the start and at the end of a sentence of
\* three tokens with a window that reaches beyond both ends, and in another
\* sentence too
C12_Witness ==
    /\ Returned("context_in_training_data")
    /\ last.args.n >= 1
    /\ Len(last.value) >= 3
    /\ \E d \in 1..Len(embedding.training_data.docs) :
          LET s == embedding.training_data.docs[d]
          IN  /\ Len(s) = 3
              /\ \E i, j \in 1..3 :
                    /\ s[i] = last.args.word /\ i - last.args.n < 1
                    /\ s[j] = last.args.word /\ j + last.args.n > 3
                    /\ i # j

\* ------------------------------------------------------------------ C13
\* the corpus frequency of a token
FrequencyOf(word) == CountIn(embedding.training_data.docs, word)

CorpusTokens == Elements(Flatten(embedding.training_data.docs))

\* C13: vocab_sorted_by_frequency_in_training_data returns the distinct
\* tokens of the corpus in descending order of frequency; first_n = N keeps
\* the N most frequent ones; more_frequent_than = t keeps the tokens of
\* frequency strictly greater than t, and t = 0 or None filters nothing.
C13_VocabIsRankedByFrequency ==
    Returned("vocab_sorted_by_frequency_in_training_data") =>
        LET rows == last.value
            first_n == last.args.first_n
            t == IF last.args.more_frequent_than \in { <<>>, <<0>> } THEN 0
                 ELSE last.args.more_frequent_than[1]
            listed == { rows[k].Word : k \in 1..Len(rows) }
        IN  /\ \A k \in 1..Len(rows) : rows[k].Frequency = FrequencyOf(rows[k].Word)
            /\ \A j, k \in 1..Len(rows) : j < k =>
                    /\ rows[j].Word # rows[k].Word
                    /\ rows[j].Frequency >= rows[k].Frequency
            /\ listed \subseteq CorpusTokens
            /\ \A w \in listed : FrequencyOf(w) > t
            /\ first_n = <<>> => listed = { w \in CorpusTokens : FrequencyOf(w) > t }
            /\ (first_n # <<>> /\ first_n[1] >= 0) =>
                    \A w \in CorpusTokens \ listed :
                        \/ \A x \in listed : FrequencyOf(w) <= FrequencyOf(x)
                        \/ FrequencyOf(w) <= t

\* what holds of the table: the tokens are distinct tokens of the corpus with
\* their frequencies, and the threshold is strict and filters nothing when 0
C13_FrequenciesAndThresholdHold ==
    Returned("vocab_sorted_by_frequency_in_training_data") =>
        LET rows == last.value
            t == IF last.args.more_frequent_than \in { <<>>, <<0>> } THEN 0
                 ELSE last.args.more_frequent_than[1]
            listed == { rows[k].Word : k \in 1..Len(rows) }
        IN  /\ \A k \in 1..Len(rows) : rows[k].Frequency = FrequencyOf(rows[k].Word)
            /\ \A j, k \in 1..Len(rows) : j < k => rows[j].Word # rows[k].Word
            /\ listed \subseteq CorpusTokens
            /\ \A w \in listed : FrequencyOf(w) > t
            /\ last.args.first_n = <<>> =>
                    listed = { w \in CorpusTokens : FrequencyOf(w) > t }


\* =========================================================================
\* WordEmbedding: vectors, differences and projections
\* =========================================================================
\* self._word_vectors[word] raises KeyError for a word that is not there
WordEmbedding_vector(self, word) ==
    IF in_vocab(self, word) THEN [exc |-> "none", value |-> vector(self, word)]
    ELSE [exc |-> "KeyError", value |-> NaN]

\* similarity(word1, word2)
WordEmbedding_similarity(self, word1, word2) ==
    IF ~in_vocab(self, word1) \/ ~in_vocab(self, word2)
    THEN [exc |-> "KeyError", value |-> NaN]
    ELSE [exc |-> "none", value |-> similarity(self, word1, word2)]

\* centroid_of_vectors(list_of_words, normalize): the list comprehension
\* raises KeyError at the first word that is not in the vocabulary
WordEmbedding_centroid_of_vectors(self, list_of_words, normalize) ==
    IF \E k \in 1..Len(list_of_words) : ~in_vocab(self, list_of_words[k])
    THEN [exc |-> "KeyError", value |-> NaN]
    ELSE [exc |-> "none", value |-> centroid_of_vectors(self, list_of_words, normalize)]

\* np.allclose that never finds two vectors close
allclose_Never(vec1, vec2) == FALSE

\* np.allclose(vec1, vec2, atol=1e-10) on exact numbers: equality, and NaN is
\* close to nothing
allclose(vec1, vec2) == ~IsNaN(vec1) /\ ~IsNaN(vec2) /\ vec1 = vec2

\* difference_vector(word1, word2, normalize)
WordEmbedding_difference_vector(self, word1, word2, normalize) ==
    IF ~in_vocab(self, word1) \/ ~in_vocab(self, word2)
    THEN [exc |-> "KeyError", value |-> NaN]
    ELSE LET vec1 == vector(self, word1)
             vec2 == vector(self, word2)
             diff == RSub(vec1, vec2)
         IN  IF allclose(vec1, vec2) THEN [exc |-> "ValueError", value |-> NaN]
             ELSE [exc |-> "none",
                   value |-> IF normalize THEN normalize_vector(diff) ELSE diff]

\* difference_vectors(list_of_word_pairs, normalize): the list comprehension
\* stops at the first pair that raises
RECURSIVE WordEmbedding_difference_vectors(_, _, _)
WordEmbedding_difference_vectors(self, list_of_word_pairs, normalize) ==
    IF Len(list_of_word_pairs) = 0 THEN [exc |-> "none", value |-> <<>>]
    ELSE LET first == WordEmbedding_difference_vector(
                          self, list_of_word_pairs[1][1], list_of_word_pairs[1][2], normalize)
             rest == WordEmbedding_difference_vectors(self, Tail(list_of_word_pairs), normalize)
         IN  IF first.exc # "none" THEN [exc |-> first.exc, value |-> <<>>]
             ELSE IF rest.exc # "none" THEN rest
             ELSE [exc |-> "none", value |-> <<first.value>> \o rest.value]

\* centroid_of_difference_vectors(list_of_word_pairs, normalize_diffs,
\* normalize_centroid)
WordEmbedding_centroid_of_difference_vectors(self, list_of_word_pairs, normalize_diffs, normalize_centroid) ==
    LET difference_vecs == WordEmbedding_difference_vectors(self, list_of_word_pairs,
                                                            normalize_diffs)
        centroid == np_mean(difference_vecs.value)
    IN  IF difference_vecs.exc # "none" THEN [exc |-> difference_vecs.exc, value |-> NaN]
        ELSE [exc |-> "none",
              value |-> IF normalize_centroid THEN normalize_vector(centroid) ELSE centroid]

\* projection with the difference taken as second word minus first word
WordEmbedding_projection_SecondMinusFirst(self, test_word, word_pair) ==
    LET diff == WordEmbedding_difference_vector(self, word_pair[2], word_pair[1], TRUE)
    IN  IF diff.exc # "none" THEN diff
        ELSE IF ~in_vocab(self, test_word) THEN [exc |-> "KeyError", value |-> NaN]
        ELSE [exc |-> "none", value |-> np_dot(diff.value, vector(self, test_word))]

\* projection(test_word, word_pair): the difference is computed first, then
\* the test word's vector
WordEmbedding_projection(self, test_word, word_pair) ==
    LET diff == WordEmbedding_difference_vector(self, word_pair[1], word_pair[2], TRUE)
    IN  IF diff.exc # "none" THEN diff
        ELSE IF ~in_vocab(self, test_word) THEN [exc |-> "KeyError", value |-> NaN]
        ELSE [exc |-> "none", value |-> np_dot(diff.value, vector(self, test_word))]

\* word_pair[0] + " - " + word_pair[1]
DimensionLabel(word_pair) == word_pair[1] \o <<" ", "-", " ">> \o word_pair[2]

\* the inner loop of projections: the rows of one test word
RECURSIVE ProjectionsOfWord(_, _, _, _)
ProjectionsOfWord(self, word, word_pairs, result) ==
    IF Len(word_pairs) = 0 THEN [exc |-> "none", value |-> result]
    ELSE LET projection == WordEmbedding_projection(self, word, word_pairs[1])
         IN  IF projection.exc # "none" THEN [exc |-> projection.exc, value |-> result]
             ELSE ProjectionsOfWord(self, word, Tail(word_pairs),
                      Append(result, [test |-> word,
                                      dimension |-> DimensionLabel(word_pairs[1]),
                                      projection |-> projection.value]))

\* the outer loop of projections
RECURSIVE ProjectionsLoop(_, _, _, _)
ProjectionsLoop(self, test_words, word_pairs, result) ==
    IF Len(test_words) = 0 THEN [exc |-> "none", value |-> result]
    ELSE LET got == ProjectionsOfWord(self, test_words[1], word_pairs, result)
         IN  IF got.exc # "none" THEN got
             ELSE ProjectionsLoop(self, Tail(test_words), word_pairs, got.value)

\* the table of projections without the test_freq column
TestFreqColumn_Never(self, rows) ==
    [cols |-> <<"test", "dimension", "projection">>, rows |-> rows]

\* `if self.training_data is not None: result_dataframe['test_freq'] = ...`
TestFreqColumn(self, rows) ==
    IF self.training_data.is_none
    THEN [cols |-> <<"test", "dimension", "projection">>, rows |-> rows]
    ELSE [cols |-> <<"test", "dimension", "projection", "test_freq">>,
          rows |-> [k \in 1..Len(rows) |->
                      [test |-> rows[k].test, dimension |-> rows[k].dimension,
                       projection |-> rows[k].projection,
                       test_freq |-> frequency_in_training_data(self, rows[k].test).value]]]

\* projections(test_words, word_pairs)
WordEmbedding_projections(self, test_words, word_pairs) ==
    LET result == ProjectionsLoop(self, test_words, word_pairs, <<>>)
    IN  IF result.exc # "none" THEN [exc |-> result.exc, value |-> <<>>]
        ELSE [exc |-> "none", value |-> TestFreqColumn(self, result.value)]

\* centroid / np.linalg.norm(centroid): the zero vector gives 0/0 = NaN
DivideByNorm(v0) ==
    CHOOSE r \in { IF IsNaN(v) \/ v[1] = 0 THEN NaN
                   ELSE <<(IF v[1] < 0 THEN -1 ELSE 1), 1>> : v \in {v0} } : TRUE

\* the score of one test word on one bipolar dimension
\* (here and below, x \in {e} binds x to the value of e once)
WordBipolarScore(self, test_word, dim_clusters, normalize_before, normalize_centroids) ==
    IF Len(dim_clusters) # 2 THEN [exc |-> "ValueError", value |-> NaN]
    ELSE CHOOSE res \in {
             LET centroid_left_cluster ==
                     IF normalize_centroids THEN DivideByNorm(left.value) ELSE left.value
                 centroid_right_cluster ==
                     IF normalize_centroids THEN DivideByNorm(right.value) ELSE right.value
                 diff == RSub(centroid_left_cluster, centroid_right_cluster)
             IN  IF left.exc # "none" THEN left
                 ELSE IF right.exc # "none" THEN right
                 ELSE [exc |-> "none",
                       value |-> np_dot(vector(self, test_word),
                                        IF normalize_before THEN normalize_vector(diff)
                                        ELSE diff)] :
             left \in { WordEmbedding_centroid_of_vectors(self, Iterate(dim_clusters[1]), FALSE) },
             right \in { WordEmbedding_centroid_of_vectors(self, Iterate(dim_clusters[2]), FALSE) }
         } : TRUE

\* the loop over dimensions.values() for one test word
RECURSIVE WordBipolarRow(_, _, _, _, _, _)
WordBipolarRow(self, test_word, dimensions, normalize_before, normalize_centroids, row) ==
    IF Len(dimensions) = 0 THEN [exc |-> "none", value |-> row]
    ELSE CHOOSE out \in {
             IF res.exc # "none" THEN [exc |-> res.exc, value |-> row]
             ELSE WordBipolarRow(self, test_word, Tail(dimensions), normalize_before,
                                 normalize_centroids, Append(row, res.value)) :
             res \in { WordBipolarScore(self, test_word, dimensions[1].words,
                                        normalize_before, normalize_centroids) }
         } : TRUE

\* the loop over the test words: the vector of the test word is looked up
\* before its dimensions are
RECURSIVE WordBipolarData(_, _, _, _, _, _)
WordBipolarData(self, test_words, dimensions, normalize_before, normalize_centroids, data) ==
    IF Len(test_words) = 0 THEN [exc |-> "none", value |-> data]
    ELSE IF ~in_vocab(self, test_words[1]) THEN [exc |-> "KeyError", value |-> data]
    ELSE CHOOSE out \in {
             IF row.exc # "none" THEN [exc |-> row.exc, value |-> data]
             ELSE WordBipolarData(self, Tail(test_words), dimensions, normalize_before,
                      normalize_centroids,
                      Append(data, [test_word |-> test_words[1], scores |-> row.value])) :
             row \in { WordBipolarRow(self, test_words[1], dimensions, normalize_before,
                                      normalize_centroids, <<>>) }
         } : TRUE

\* the order of df.sort_values(cols[1:], ascending=False) on two rows: by the
\* first column in which they differ, the greater first and NaN last
ScoresBefore(r1, r2) ==
    \E k \in 1..Len(r1.scores) :
        /\ \A j \in 1..(k - 1) : ~Before(r1.scores[j], r2.scores[j])
                                  /\ ~Before(r2.scores[j], r1.scores[j])
        /\ Before(r1.scores[k], r2.scores[k])

RECURSIVE InsertByScores(_, _)
InsertByScores(row, rows) ==
    IF Len(rows) = 0 THEN <<row>>
    ELSE IF ScoresBefore(rows[1], row) THEN <<rows[1]>> \o InsertByScores(row, Tail(rows))
    ELSE <<row>> \o rows

\* the table left in the order in which the rows were computed
sort_values_by_scores_Unsorted(rows) == rows

\* df.sort_values(cols[1:], axis=0, ascending=False); rows that tie in every
\* column keep their order
RECURSIVE sort_values_by_scores(_)
sort_values_by_scores(rows) ==
    IF Len(rows) = 0 THEN <<>>
    ELSE InsertByScores(rows[1], sort_values_by_scores(Tail(rows)))

\* cols = ["test_word"] + list(dimensions)
WordCols(dimensions) == <<"test_word">> \o [d \in 1..Len(dimensions) |-> dimensions[d].name]

\* WordEmbedding.projections_to_bipolar_dimensions(test, dimensions,
\* normalize_before, normalize_centroids)
WordEmbedding_projections_to_bipolar_dimensions(self, test, dimensions, normalize_before, normalize_centroids) ==
    CHOOSE out \in {
        IF data.exc # "none" THEN [exc |-> data.exc, value |-> <<>>]
        ELSE [exc |-> "none",
              value |-> [cols |-> WordCols(dimensions),
                         rows |-> sort_values_by_scores(data.value)]] :
        data \in { WordBipolarData(self, TestWords(test), dimensions, normalize_before,
                                   normalize_centroids, <<>>) }
    } : TRUE

\* the score of one test word on one unipolar dimension
WordUnipolarScore(self, test_word, dim_cluster, normalize_before) ==
    IF NdArrayDims(dim_cluster) # 1 THEN [exc |-> "ValueError", value |-> NaN]
    ELSE CHOOSE res \in {
             IF centroid.exc # "none" THEN centroid
             ELSE [exc |-> "none",
                   value |-> np_dot(vector(self, test_word),
                                    IF normalize_before THEN normalize_vector(centroid.value)
                                    ELSE centroid.value)] :
             centroid \in { WordEmbedding_centroid_of_vectors(
                                self, [k \in 1..Len(dim_cluster) |-> dim_cluster[k].ws], FALSE) }
         } : TRUE

RECURSIVE WordUnipolarRow(_, _, _, _, _)
WordUnipolarRow(self, test_word, dimensions, normalize_before, row) ==
    IF Len(dimensions) = 0 THEN [exc |-> "none", value |-> row]
    ELSE CHOOSE out \in {
             IF res.exc # "none" THEN [exc |-> res.exc, value |-> row]
             ELSE WordUnipolarRow(self, test_word, Tail(dimensions), normalize_before,
                                  Append(row, res.value)) :
             res \in { WordUnipolarScore(self, test_word, dimensions[1].words,
                                         normalize_before) }
         } : TRUE

RECURSIVE WordUnipolarData(_, _, _, _, _)
WordUnipolarData(self, test_words, dimensions, normalize_before, data) ==
    IF Len(test_words) = 0 THEN [exc |-> "none", value |-> data]
    ELSE IF ~in_vocab(self, test_words[1]) THEN [exc |-> "KeyError", value |-> data]
    ELSE CHOOSE out \in {
             IF row.exc # "none" THEN [exc |-> row.exc, value |-> data]
             ELSE WordUnipolarData(self, Tail(test_words), dimensions, normalize_before,
                      Append(data, [test_word |-> test_words[1], scores |-> row.value])) :
             row \in { WordUnipolarRow(self, test_words[1], dimensions, normalize_before,
                                       <<>>) }
         } : TRUE

\* WordEmbedding.projections_to_unipolar_dimensions(test, dimensions,
\* normalize_before)
WordEmbedding_projections_to_unipolar_dimensions(self, test, dimensions, normalize_before) ==
    CHOOSE out \in {
        IF data.exc # "none" THEN [exc |-> data.exc, value |-> <<>>]
        ELSE [exc |-> "none",
              value |-> [cols |-> WordCols(dimensions),
                         rows |-> sort_values_by_scores(data.value)]] :
        data \in { WordUnipolarData(self, TestWords(test), dimensions, normalize_before,
                                    <<>>) }
    } : TRUE


\* ----------------------------------- WordEmbedding: calls of the geometry
\* WordEmbedding(path_to_embedding), with no training data
ConstructWithoutCorpus ==
    /\ embedding = NoEmbedding
    /\ last.op = "none"
    /\ \E path \in Paths, file \in FileStates :
          LET got == WordEmbedding_new(path, file, <<>>, [state |-> "absent", lines |-> <<>>])
          IN  /\ embedding' = IF got.exc = "none" THEN got.value ELSE embedding
              /\ last' = [op |-> "new",
                          args |-> [path |-> path, file |-> file,
                                    path_training_data |-> <<>>,
                                    text |-> [state |-> "absent", lines |-> <<>>]],
                          exc |-> got.exc, value |-> <<>>]
    /\ UNCHANGED ensemble

WordPairs == Words \X Words

\* vector(word) normalising the stored vector itself instead of a copy of it
CallVector_NormalizesInPlace ==
    /\ ReadyEmbedding
    /\ \E word \in Words :
          LET got == WordEmbedding_vector(embedding, word)
          IN  /\ last' = [op |-> "vector", args |-> [word |-> word],
                          exc |-> got.exc, value |-> got.value]
              /\ embedding' = IF got.exc # "none" THEN embedding
                               ELSE [embedding EXCEPT !.word_vectors[word] = got.value[1]]
    /\ UNCHANGED ensemble

CallVector ==
    /\ ReadyEmbedding
    /\ \E word \in Words :
          LET got == WordEmbedding_vector(embedding, word)
          IN  last' = [op |-> "vector", args |-> [word |-> word],
                       exc |-> got.exc, value |-> got.value]
    /\ UNCHANGED <<ensemble, embedding>>

CallWordSimilarity ==
    /\ ReadyEmbedding
    /\ \E word1 \in Words, word2 \in Words :
          LET got == WordEmbedding_similarity(embedding, word1, word2)
          IN  last' = [op |-> "word_similarity", args |-> [word1 |-> word1, word2 |-> word2],
                       exc |-> got.exc, value |-> got.value]
    /\ UNCHANGED <<ensemble, embedding>>

CallCentroidOfVectors ==
    /\ ReadyEmbedding
    /\ \E list_of_words \in SeqUpTo(Words, MaxCluster), normalize \in BOOLEAN :
          LET got == WordEmbedding_centroid_of_vectors(embedding, list_of_words, normalize)
          IN  last' = [op |-> "centroid_of_vectors",
                       args |-> [list_of_words |-> list_of_words, normalize |-> normalize],
                       exc |-> got.exc, value |-> got.value]
    /\ UNCHANGED <<ensemble, embedding>>

CallDifferenceVector ==
    /\ ReadyEmbedding
    /\ \E word1 \in Words, word2 \in Words, normalize \in BOOLEAN :
          LET got == WordEmbedding_difference_vector(embedding, word1, word2, normalize)
          IN  last' = [op |-> "difference_vector",
                       args |-> [word1 |-> word1, word2 |-> word2, normalize |-> normalize],
                       exc |-> got.exc, value |-> got.value]
    /\ UNCHANGED <<ensemble, embedding>>

CallDifferenceVectors ==
    /\ ReadyEmbedding
    /\ \E pairs \in SeqUpTo(WordPairs, MaxPairs), normalize \in BOOLEAN :
          LET got == WordEmbedding_difference_vectors(embedding, pairs, normalize)
          IN  last' = [op |-> "difference_vectors",
                       args |-> [list_of_word_pairs |-> pairs, normalize |-> normalize],
                       exc |-> got.exc, value |-> got.value]
    /\ UNCHANGED <<ensemble, embedding>>

CallCentroidOfDifferenceVectors ==
    /\ ReadyEmbedding
    /\ \E pairs \in SeqUpTo(WordPairs, MaxPairs),
          normalize_diffs \in BOOLEAN, normalize_centroid \in BOOLEAN :
          LET got == WordEmbedding_centroid_of_difference_vectors(
                         embedding, pairs, normalize_diffs, normalize_centroid)
          IN  last' = [op |-> "centroid_of_difference_vectors",
                       args |-> [list_of_word_pairs |-> pairs,
                                 normalize_diffs |-> normalize_diffs,
                                 normalize_centroid |-> normalize_centroid],
                       exc |-> got.exc, value |-> got.value]
    /\ UNCHANGED <<ensemble, embedding>>

CallProjection ==
    /\ ReadyEmbedding
    /\ \E test_word \in Words, word_pair \in WordPairs :
          LET got == WordEmbedding_projection(embedding, test_word, word_pair)
          IN  last' = [op |-> "projection",
                       args |-> [test_word |-> test_word, word_pair |-> word_pair],
                       exc |-> got.exc, value |-> got.value]
    /\ UNCHANGED <<ensemble, embedding>>

CallProjections ==
    /\ ReadyEmbedding
    /\ \E test_words \in SeqUpTo(Words, MaxTest), word_pairs \in SeqUpTo(WordPairs, MaxPairs) :
          LET got == WordEmbedding_projections(embedding, test_words, word_pairs)
          IN  last' = [op |-> "projections",
                       args |-> [test_words |-> test_words, word_pairs |-> word_pairs],
                       exc |-> got.exc, value |-> got.value]
    /\ UNCHANGED <<ensemble, embedding>>

CallWordBipolar ==
    /\ ReadyEmbedding
    /\ \E test \in Tests, dimensions \in BipolarDimensions,
          normalize_before \in BOOLEAN, normalize_centroids \in BOOLEAN :
          LET got == WordEmbedding_projections_to_bipolar_dimensions(
                         embedding, test, dimensions, normalize_before, normalize_centroids)
          IN  last' = [op |-> "word_bipolar",
                       args |-> [test |-> test, dimensions |-> dimensions,
                                 normalize_before |-> normalize_before,
                                 normalize_centroids |-> normalize_centroids],
                       exc |-> got.exc, value |-> got.value]
    /\ UNCHANGED <<ensemble, embedding>>

CallWordUnipolar ==
    /\ ReadyEmbedding
    /\ \E test \in Tests, dimensions \in UnipolarDimensions, normalize_before \in BOOLEAN :
          LET got == WordEmbedding_projections_to_unipolar_dimensions(
                         embedding, test, dimensions, normalize_before)
          IN  last' = [op |-> "word_unipolar",
                       args |-> [test |-> test, dimensions |-> dimensions,
                                 normalize_before |-> normalize_before],
                       exc |-> got.exc, value |-> got.value]
    /\ UNCHANGED <<ensemble, embedding>>

\* a WordEmbedding without corpus and every operation on its vectors
NextVectors ==
    \/ ConstructWithoutCorpus
    \/ TakeResult
    \/ CallVector
    \/ CallWordSimilarity
    \/ CallCentroidOfVectors
    \/ CallDifferenceVector
    \/ CallDifferenceVectors
    \/ CallCentroidOfDifferenceVectors
    \/ CallProjection
    \/ CallProjections
    \/ CallWordBipolar
    \/ CallWordUnipolar

SpecVectors == Init /\ [][NextVectors]_vars

\* a WordEmbedding with or without corpus, load_training_data and projections
NextProjectionsTable ==
    \/ ConstructEmbedding
    \/ TakeResult
    \/ CallLoadTrainingData
    \/ CallProjections

SpecProjectionsTable == Init /\ [][NextProjectionsTable]_vars


\* ---------------------------------------------- claims on the WordEmbedding
Known(word) == in_vocab(embedding, word)

\* the words a specification of dimensions names
DimensionWords ==
    UNION { UNION { IF Dimensions[d].words[k].tag = "str" THEN { Dimensions[d].words[k].ws }
                    ELSE Elements(Dimensions[d].words[k].ws) :
                    k \in 1..Len(Dimensions[d].words) } :
            d \in 1..Len(Dimensions) }

\* ------------------------------------------------------------------ C14
\* the operations C14 names, and the words a call of one of them was given
VectorOperations ==
    { "vector", "word_similarity", "difference_vector", "centroid_of_vectors",
      "projection", "word_bipolar", "word_unipolar" }

ArgumentWords ==
    IF last.op = "vector" THEN { last.args.word }
    ELSE IF last.op \in { "word_similarity", "difference_vector" }
    THEN { last.args.word1, last.args.word2 }
    ELSE IF last.op = "centroid_of_vectors" THEN Elements(last.args.list_of_words)
    ELSE IF last.op = "projection"
    THEN { last.args.test_word, last.args.word_pair[1], last.args.word_pair[2] }
    ELSE Elements(TestWords(last.args.test)) \cup DimensionWords

\* C14: in a single embedding, vector(word) and the operations built on it
\* (similarity, difference_vector, centroid_of_vectors, projection and the
\* projections to bipolar and unipolar dimensions) raise a lookup error
\* (KeyError) whenever one of the words they are given is not in the
\* vocabulary; none returns a value or a table.
C14_UnknownWordRaisesLookupError ==
    (last.op \in VectorOperations /\ \E w \in ArgumentWords : ~Known(w))
        => last.exc = "KeyError"

\* what holds instead: the call raises (KeyError, or the ValueError of a
\* check that comes first) unless it is a projection to dimensions of an
\* empty list of test words; vector, similarity, difference_vector and
\* centroid_of_vectors raise KeyError
C14_HoldsButForAnEmptyTestList ==
    (last.op \in VectorOperations /\ \E w \in ArgumentWords : ~Known(w))
        => /\ last.op \in { "vector", "word_similarity", "difference_vector",
                            "centroid_of_vectors" } => last.exc = "KeyError"
           /\ last.op = "projection" => last.exc \in { "KeyError", "ValueError" }
           /\ (last.op \in { "word_bipolar", "word_unipolar" }
                    /\ TestWords(last.args.test) # <<>>)
                => last.exc \in { "KeyError", "ValueError" }

\* ------------------------------------------------------------------ C15
\* two words of the vocabulary with the same (normalised) vector
SameVector(pair) ==
    Known(pair[1]) /\ Known(pair[2])
        /\ vector(embedding, pair[1]) = vector(embedding, pair[2])

AllKnown(pairs) == \A k \in 1..Len(pairs) : Known(pairs[k][1]) /\ Known(pairs[k][2])

\* C15: difference_vector raises ValueError for two words of the vocabulary
\* with the same vector, so for difference_vector(a, a); and the callers that
\* reach such a pair raise the same ValueError: difference_vectors and
\* centroid_of_difference_vectors on a list of known words with such a pair,
\* projection on such a pair, projections on known words with such a pair.
C15_SameVectorsRaiseValueError ==
    /\ (last.op = "difference_vector" /\ SameVector(<<last.args.word1, last.args.word2>>))
            => last.exc = "ValueError"
    /\ (/\ last.op \in { "difference_vectors", "centroid_of_difference_vectors" }
        /\ AllKnown(last.args.list_of_word_pairs)
        /\ \E k \in 1..Len(last.args.list_of_word_pairs) :
                SameVector(last.args.list_of_word_pairs[k]))
            => last.exc = "ValueError"
    /\ (last.op = "projection" /\ SameVector(last.args.word_pair))
            => last.exc = "ValueError"
    /\ (/\ last.op = "projections"
        /\ last.args.test_words # <<>>
        /\ \A k \in 1..Len(last.args.test_words) : Known(last.args.test_words[k])
        /\ AllKnown(last.args.word_pairs)
        /\ \E k \in 1..Len(last.args.word_pairs) : SameVector(last.args.word_pairs[k]))
            => last.exc = "ValueError"

\* projections raised ValueError on a second pair of two different words with
\* the same vector, after a first pair that has a difference
C15_Witness ==
    /\ last.op = "projections"
    /\ last.exc = "ValueError"
    /\ Len(last.args.word_pairs) = 2
    /\ AllKnown(last.args.word_pairs)
    /\ ~SameVector(last.args.word_pairs[1])
    /\ SameVector(last.args.word_pairs[2])
    /\ \A k \in 1..Len(last.args.test_words) : Known(last.args.test_words[k])

\* ------------------------------------------------------------------ C17
Zero == <<0, 1>>

\* C17: projection(test_word, (w0, w1)) is positive exactly when the test
\* word's vector has a larger dot product with w0's vector than with w1's, and
\* negative exactly when it has a smaller one; it is positive for w0 itself
\* and negative for w1 itself; the swapped pair gives the negated value; and
\* the call returns whenever the three words are known and the vectors of w0
\* and w1 differ.
C17_ProjectionSign ==
    LET test_word == last.args.test_word
        w0 == last.args.word_pair[1]
        w1 == last.args.word_pair[2]
        t == vector(embedding, test_word)
        to0 == np_dot(t, vector(embedding, w0))
        to1 == np_dot(t, vector(embedding, w1))
        swapped == WordEmbedding_projection(embedding, test_word, <<w1, w0>>)
    IN  /\ Returned("projection") =>
                /\ RLess(Zero, last.value) <=> RLess(to1, to0)
                /\ RLess(last.value, Zero) <=> RLess(to0, to1)
                /\ test_word = w0 => RLess(Zero, last.value)
                /\ test_word = w1 => RLess(last.value, Zero)
                /\ swapped.exc = "none"
                /\ swapped.value = RSub(Zero, last.value)
        /\ (/\ last.op = "projection"
            /\ Known(test_word) /\ Known(w0) /\ Known(w1)
            /\ ~SameVector(last.args.word_pair))
                => last.exc = "none"

\* the projection of the second word of a pair on that pair was negative
C17_Witness ==
    /\ Returned("projection")
    /\ last.args.test_word = last.args.word_pair[2]
    /\ RLess(last.value, Zero)

\* ------------------------------------------------------------------ C18
HasTestFreq == \E c \in 1..Len(last.value.cols) : last.value.cols[c] = "test_freq"

\* C18: projections(test_words, word_pairs) returns one row per combination
\* of a test word and a word pair, len(test_words) * len(word_pairs) rows, the
\* rows of the first test word first, each with the projection of its test
\* word on its pair; the table has a test_freq column exactly when a training
\* corpus is attached, holding the test word's frequency in the corpus.
C18_OneRowPerCombination ==
    Returned("projections") =>
        LET test_words == last.args.test_words
            word_pairs == last.args.word_pairs
            rows == last.value.rows
        IN  /\ Len(rows) = Len(test_words) * Len(word_pairs)
            /\ \A i \in 1..Len(test_words), j \in 1..Len(word_pairs) :
                  LET row == rows[(i - 1) * Len(word_pairs) + j]
                  IN  /\ row.test = test_words[i]
                      /\ row.projection =
                            WordEmbedding_projection(embedding, test_words[i],
                                                     word_pairs[j]).value
            /\ HasTestFreq <=> ~embedding.training_data.is_none
            /\ HasTestFreq =>
                  \A k \in 1..Len(rows) : rows[k].test_freq = FrequencyOf(rows[k].test)

\* a table of two test words by two pairs, with the frequencies of a corpus
\* in which the two test words are not equally frequent
C18_Witness ==
    /\ Returned("projections")
    /\ Len(last.args.test_words) = 2
    /\ Len(last.args.word_pairs) = 2
    /\ last.args.word_pairs[1] # last.args.word_pairs[2]
    /\ Len(last.value.rows) = 4
    /\ HasTestFreq
    /\ last.value.rows[1].test_freq > last.value.rows[3].test_freq
    /\ last.value.rows[3].test_freq > 0

\* ------------------------------------------------------------------ C19
\* C19: WordEmbedding.projections_to_bipolar_dimensions raises ValueError for
\* every call in which some dimension is not given as exactly two clusters,
\* whatever the test words are, an empty list included.
C19_WordBipolarBadShapeRaises ==
    (last.op = "word_bipolar" /\ \E d \in 1..Len(Dimensions) : ~TwoClusters(Dimensions[d].words))
        => last.exc = "ValueError"

\* what holds instead: ValueError when the list of test words starts with a
\* known word and the first dimension does not have two entries
C19_HoldsWhenTheCheckIsReached ==
    (/\ last.op = "word_bipolar"
     /\ TestWords(last.args.test) # <<>>
     /\ Known(TestWords(last.args.test)[1])
     /\ Len(Dimensions[1].words) # 2)
        => last.exc = "ValueError"

\* ------------------------------------------------------------------ C20
SameScore(x, y) == (IsNaN(x) /\ IsNaN(y)) \/ x = y

\* r1 may stand before r2 in a table in descending order of its columns: in
\* the first column in which they differ r1 is the greater (NaN the least)
InDescendingOrder(r1, r2) ==
    \A k \in 1..Len(r1.scores) :
        (\A j \in 1..(k - 1) : SameScore(r1.scores[j], r2.scores[j]))
            => /\ ~RLess(r1.scores[k], r2.scores[k])
               /\ IsNaN(r1.scores[k]) => IsNaN(r2.scores[k])

\* C20: the table of WordEmbedding.projections_to_bipolar_dimensions has the
\* columns test_word and then the dimensions' names in the order listed, one
\* row per test word, and the rows are in descending order of the first
\* dimension's column, ties broken by the following columns in order.
C20_WordBipolarTableIsSorted ==
    Returned("word_bipolar") =>
        LET rows == last.value.rows
            test_words == TestWords(last.args.test)
        IN  /\ last.value.cols =
                  <<"test_word">> \o [d \in 1..Len(Dimensions) |-> Dimensions[d].name]
            /\ Len(rows) = Len(test_words)
            /\ \A w \in Words :
                  Cardinality({ k \in 1..Len(rows) : rows[k].test_word = w })
                      = Cardinality({ k \in 1..Len(test_words) : test_words[k] = w })
            /\ \A k \in 1..Len(rows) : Len(rows[k].scores) = Len(Dimensions)
            /\ \A j, k \in 1..Len(rows) : j < k => InDescendingOrder(rows[j], rows[k])

\* a table of two dimensions whose rows tie in the first column and were
\* put in the order of the second, the reverse of the test words' order
C20_Witness ==
    /\ Returned("word_bipolar")
    /\ Len(Dimensions) = 2
    /\ Len(last.value.rows) = 2
    /\ last.value.rows[1].test_word = TestWords(last.args.test)[2]
    /\ last.value.rows[2].test_word = TestWords(last.args.test)[1]
    /\ last.value.rows[1].scores[1] = last.value.rows[2].scores[1]
    /\ RLess(last.value.rows[2].scores[2], last.value.rows[1].scores[2])


\* =========================================================================
\* WordEmbedding: most_similar and least_similar
\* =========================================================================
\* For these two operations the vectors are unit vectors of the plane, kept
\* as their angle in units of 60 degrees, so that every cosine is rational.
\* largest n handed to most_similar and least_similar
MaxTopn == 3
\* the angles 0, 60, 120 and 180 degrees, in units of 60 degrees
Angles == 0..3

SimilarWords == { <<"a">>, <<"a", "b">>, <<"b">>, <<"b", "a">> }

\* the cosine of k * 60 degrees, k in Angles
Cosine(k) == IF k = 0 THEN <<1, 1>> ELSE IF k = 1 THEN <<1, 2>>
             ELSE IF k = 2 THEN <<-1, 2>> ELSE <<-1, 1>>

\* the cosine similarity of two words of the model
CosineSimilarity(kv, word1, word2) == Cosine(Abs(kv[word1] - kv[word2]))

\* the files of plane vectors: a model holding an angle for each of its words
PlaneModels == UNION { [S -> Angles] : S \in SUBSET SimilarWords }

\* WordEmbedding(path) on such a file
PlaneEmbedding(path, kv) ==
    [path_to_embedding |-> path, word_vectors |-> kv, training_data |-> None]

\* vocab_size()
vocab_size(self) == Cardinality(DOMAIN self.word_vectors)

\* gensim's KeyedVectors.most_similar(word, topn): KeyError for an unknown
\* word, [] for topn < 1, else the first topn of the other words in descending
\* order of their cosine similarity to word.  Words of equal similarity come
\* in an order the library chooses: ranking is one such order of all the
\* other words.
Rankings(kv, word) ==
    IF word \notin DOMAIN kv THEN { <<>> }
    ELSE { o \in Orderings(DOMAIN kv \ {word}) :
            \A j, k \in 1..Len(o) :
                j < k => ~RLess(CosineSimilarity(kv, word, o[j]),
                                CosineSimilarity(kv, word, o[k])) }

KeyedVectors_most_similar(kv, word, topn, ranking) ==
    IF word \notin DOMAIN kv THEN [exc |-> "KeyError", value |-> <<>>]
    ELSE IF topn < 1 THEN [exc |-> "none", value |-> <<>>]
    ELSE [exc |-> "none",
          value |-> [k \in 1..Min(topn, Len(ranking)) |->
                        [word |-> ranking[k],
                         s |-> CosineSimilarity(kv, word, ranking[k])]]]

\* most_similar(word, n); round(s, 3) leaves the cosines of the model as
\* they are
WordEmbedding_most_similar(self, word, n, ranking) ==
    KeyedVectors_most_similar(self.word_vectors, word, n, ranking)

\* last_n left in the order of most_similar
Reversed_Not(seq) == seq

\* last_n[::-1]
Reversed(seq) == [k \in 1..Len(seq) |-> seq[Len(seq) + 1 - k]]

\* least_similar(word, n): the last n of the ranking of the whole vocabulary,
\* reversed; most_sim[-n:] is the whole list for n = 0
WordEmbedding_least_similar(self, word, n, ranking) ==
    LET most_sim == KeyedVectors_most_similar(self.word_vectors, word,
                                              vocab_size(self), ranking)
        last_n == Slice(most_sim.value, -n, Len(most_sim.value))
    IN  IF most_sim.exc # "none" THEN most_sim
        ELSE [exc |-> "none", value |-> Reversed(last_n)]

\* WordEmbedding(path) on a file of plane vectors
ConstructPlaneEmbedding ==
    /\ embedding = NoEmbedding
    /\ last.op = "none"
    /\ \E path \in Paths, kv \in PlaneModels :
          /\ embedding' = PlaneEmbedding(path, kv)
          /\ last' = [op |-> "new", args |-> [path |-> path], exc |-> "none", value |-> <<>>]
    /\ UNCHANGED ensemble

CallMostSimilar ==
    /\ ReadyEmbedding
    /\ \E word \in SimilarWords, n \in 0..MaxTopn :
          \E ranking \in Rankings(embedding.word_vectors, word) :
              LET got == WordEmbedding_most_similar(embedding, word, n, ranking)
              IN  last' = [op |-> "most_similar", args |-> [word |-> word, n |-> n],
                           exc |-> got.exc, value |-> got.value]
    /\ UNCHANGED <<ensemble, embedding>>

CallLeastSimilar ==
    /\ ReadyEmbedding
    /\ \E word \in SimilarWords, n \in 0..MaxTopn :
          \E ranking \in Rankings(embedding.word_vectors, word) :
              LET got == WordEmbedding_least_similar(embedding, word, n, ranking)
              IN  last' = [op |-> "least_similar", args |-> [word |-> word, n |-> n],
                           exc |-> got.exc, value |-> got.value]
    /\ UNCHANGED <<ensemble, embedding>>

\* a WordEmbedding of plane vectors, most_similar and least_similar
NextSimilar ==
    \/ ConstructPlaneEmbedding
    \/ TakeResult
    \/ CallMostSimilar
    \/ CallLeastSimilar

SpecSimilar == Init /\ [][NextSimilar]_vars

\* ------------------------------------------------------------------ C16
\* the words of a list of (word, similarity) pairs
WordsOf(result) == { result[k].word : k \in 1..Len(result) }

\* the other words of the vocabulary, and their similarities to the query
OtherWords == DOMAIN embedding.word_vectors \ { last.args.word }

SimilarityTo(w) == CosineSimilarity(embedding.word_vectors, last.args.word, w)

\* everything most_similar may return for the arguments of the last call
MostSimilarResults ==
    { WordEmbedding_most_similar(embedding, last.args.word, last.args.n, ranking).value :
        ranking \in Rankings(embedding.word_vectors, last.args.word) }

\* least_similar lists its words most dissimilar first
MostDissimilarFirst ==
    \A j, k \in 1..Len(last.value) : j < k => ~RLess(last.value[k].s, last.value[j].s)

\* C16 as stated: for every vocabulary, query word and n, most_similar(word, n)
\* and least_similar(word, n) return disjoint sets of words unless the
\* similarities are uniform, and least_similar lists its words most
\* dissimilar first.
C16_MostAndLeastAreDisjoint ==
    Returned("least_similar") =>
        /\ (\E x, y \in OtherWords : SimilarityTo(x) # SimilarityTo(y))
                => \A most \in MostSimilarResults : WordsOf(most) \cap WordsOf(last.value) = {}
        /\ MostDissimilarFirst

\* C16 amended: the two sets are disjoint when the vocabulary has at least 2n
\* words besides the query and their similarities to the query are pairwise
\* distinct; least_similar lists its words most dissimilar first, always.
C16_DisjointInALargeEnoughVocabulary ==
    Returned("least_similar") =>
        /\ (/\ 2 * last.args.n <= Cardinality(OtherWords)
            /\ \A x, y \in OtherWords : x # y => SimilarityTo(x) # SimilarityTo(y))
                => \A most \in MostSimilarResults : WordsOf(most) \cap WordsOf(last.value) = {}
        /\ MostDissimilarFirst

\* least_similar(word, 1) returned a word in a vocabulary of three other
\* words of distinct similarities, of which most_similar(word, 1) returns
\* another
C16_Witness ==
    /\ Returned("least_similar")
    /\ last.args.n = 1
    /\ Cardinality(OtherWords) = 3
    /\ \A x, y \in OtherWords : x # y => SimilarityTo(x) # SimilarityTo(y)
    /\ Len(last.value) = 1
    /\ \E most \in MostSimilarResults : Len(most) = 1


\* ------------------------------------------ WordEmbedding: vocabulary queries
\* most words asked of random_words
MaxSample == 2

\* word.count(char)
count(word, char) == Cardinality({ k \in 1..Len(word) : word[k] = char })

\* vocab(n_grams): n_grams is <<>> for None or <<k>>; the sorted vocabulary, or
\* its words made of n_grams parts joined by "_"
WordEmbedding_vocab(self, n_grams) ==
    IF n_grams # <<>> /\ n_grams[1] \notin 1..99
    THEN [exc |-> "ValueError", value |-> <<>>]
    ELSE IF n_grams # <<>>
    THEN [exc |-> "none",
          value |-> sorted({ word \in DOMAIN self.word_vectors :
                                 count(word, "_") = n_grams[1] - 1 })]
    ELSE [exc |-> "none", value |-> sorted(DOMAIN self.word_vectors)]

\* the list random_words draws from: the vocabulary, or the words of the
\* corpus that are more frequent than min_frequency
RandomWordsPopulation(self, min_frequency) ==
    IF min_frequency # <<>> /\ self.training_data.is_none
    THEN [exc |-> "ValueError", value |-> <<>>]
    ELSE IF min_frequency # <<>>
    THEN LET table == vocab_sorted_by_frequency_in_training_data(self, <<>>, min_frequency)
         IN  [exc |-> "none", value |-> [k \in 1..Len(table.value) |-> table.value[k].Word]]
    ELSE WordEmbedding_vocab(self, <<>>)

\* random.sample(population, k): the lists of k elements at distinct places of
\* the population; which of them a call returns is drawn from the random
\* generator of the process, afresh at every call
Samples(population, k) ==
    { [i \in 1..k |-> population[places[i]]] :
        places \in { f \in [1..k -> 1..Len(population)] :
                        \A i, j \in 1..k : i # j => f[i] # f[j] } }

\* random_words(n_words, min_frequency) when sample() draws picked; sample()
\* raises ValueError for a sample larger than the population
random_words(self, n_words, min_frequency, picked) ==
    LET population == RandomWordsPopulation(self, min_frequency)
    IN  IF population.exc # "none" THEN population
        ELSE IF n_words > Len(population.value) THEN [exc |-> "ValueError", value |-> <<>>]
        ELSE [exc |-> "none", value |-> picked]

NGrams == { <<>>, <<0>>, <<1>>, <<2>> }

CallVocab ==
    /\ ReadyEmbedding
    /\ \E n_grams \in NGrams :
          LET got == WordEmbedding_vocab(embedding, n_grams)
          IN  last' = [op |-> "vocab", args |-> [n_grams |-> n_grams],
                       exc |-> got.exc, value |-> got.value]
    /\ UNCHANGED <<ensemble, embedding>>

CallVocabSize ==
    /\ ReadyEmbedding
    /\ last' = [op |-> "vocab_size", args |-> <<>>, exc |-> "none",
                value |-> vocab_size(embedding)]
    /\ UNCHANGED <<ensemble, embedding>>

CallInVocab ==
    /\ ReadyEmbedding
    /\ \E word \in Words :
          last' = [op |-> "in_vocab", args |-> [word |-> word], exc |-> "none",
                   value |-> in_vocab(embedding, word)]
    /\ UNCHANGED <<ensemble, embedding>>

CallRandomWords ==
    /\ ReadyEmbedding
    /\ \E n_words \in 0..MaxSample, min_frequency \in Thresholds :
          LET population == RandomWordsPopulation(embedding, min_frequency)
          IN  \E picked \in (IF population.exc = "none" /\ n_words <= Len(population.value)
                             THEN Samples(population.value, n_words) ELSE { <<>> }) :
                  LET got == random_words(embedding, n_words, min_frequency, picked)
                  IN  last' = [op |-> "random_words",
                               args |-> [n_words |-> n_words, min_frequency |-> min_frequency],
                               exc |-> got.exc, value |-> got.value]
    /\ UNCHANGED <<ensemble, embedding>>


\* ------------------------------------------- every operation, on one object
\* A session works on one object: an EmbeddingEnsemble, a WordEmbedding of the
\* file "a" (vectors on a line, with or without corpus), or a WordEmbedding of
\* the file "b" (vectors in the plane, for most_similar and least_similar).
\* The two projections to dimensions, which do not read the corpus, are called
\* on an embedding without one.
LineFile == [dir |-> "m", name |-> "a"]
PlaneFile == [dir |-> "m", name |-> "b"]

OnLine == embedding # NoEmbedding /\ embedding.path_to_embedding = LineFile
OnPlane == embedding # NoEmbedding /\ embedding.path_to_embedding = PlaneFile

NextFrame ==
    \/ /\ ensemble = NoObject
       /\ ConstructEmbedding
       /\ embedding' # NoEmbedding => embedding'.path_to_embedding = LineFile
    \/ /\ ensemble = NoObject
       /\ ConstructPlaneEmbedding
       /\ embedding'.path_to_embedding = PlaneFile
    \/ embedding = NoEmbedding /\ ConstructFromList
    \/ TakeResult
    \/ CallSharedVocab
    \/ CallSimilarity
    \/ CallSimilarities
    \/ CallBipolar
    \/ CallUnipolar
    \/ OnLine /\ CallLoadTrainingData
    \/ OnLine /\ CallVocab
    \/ CallVocabSize
    \/ OnLine /\ CallInVocab
    \/ OnLine /\ CallRandomWords
    \/ OnLine /\ CallContext
    \/ OnLine /\ CallFrequency
    \/ OnLine /\ CallSortByFrequency
    \/ OnLine /\ CallVocabSortedByFrequency
    \/ OnLine /\ CallTrainingDataSize
    \/ OnLine /\ CallVector
    \/ OnLine /\ CallWordSimilarity
    \/ OnLine /\ CallCentroidOfVectors
    \/ OnLine /\ CallDifferenceVector
    \/ OnLine /\ CallDifferenceVectors
    \/ OnLine /\ CallCentroidOfDifferenceVectors
    \/ OnLine /\ CallProjection
    \/ OnLine /\ CallProjections
    \/ OnLine /\ embedding.training_data.is_none /\ CallWordBipolar
    \/ OnLine /\ embedding.training_data.is_none /\ CallWordUnipolar
    \/ OnPlane /\ CallMostSimilar
    \/ OnPlane /\ CallLeastSimilar

SpecFrame == Init /\ [][NextFrame]_vars


\* ------------------------------------------------------------------ C21
\* the operations that analyse: all but the constructors and load_training_data
AnalysisOperations ==
    { "shared_vocab", "similarity", "similarities", "bipolar", "unipolar",
      "vocab", "vocab_size", "in_vocab", "random_words",
      "context_in_training_data", "frequency_in_training_data",
      "sort_by_frequency_in_training_data",
      "vocab_sorted_by_frequency_in_training_data", "training_data_size",
      "vector", "word_similarity", "centroid_of_vectors", "difference_vector",
      "difference_vectors", "centroid_of_difference_vectors", "projection",
      "projections", "word_bipolar", "word_unipolar", "most_similar", "least_similar" }

\* what the last call returned or raised
Outcome == [exc |-> last.exc, value |-> last.value]

\* the samples random_words may draw when called again with the last arguments
SamplesAgain ==
    LET population == RandomWordsPopulation(embedding, last.args.min_frequency)
    IN  IF population.exc = "none" /\ last.args.n_words <= Len(population.value)
        THEN Samples(population.value, last.args.n_words) ELSE { <<>> }

\* the last call, made again on the objects as they are now with the same
\* arguments, has the outcome it had.  The order in which Python lists a set
\* and gensim ranks words of equal similarity is not known to the model but is
\* the same at every call: shared_vocab is called again with the order it
\* used, most_similar and least_similar with some ranking that gives the
\* outcome.  random_words is left to the two claims below.
SameAgain ==
    LET a == last.args
    IN  CASE last.op = "shared_vocab" -> shared_vocab(ensemble, last.value) = Outcome
          [] last.op = "similarity" -> Ensemble_similarity(ensemble, a[1], a[2]) = Outcome
          [] last.op = "similarities" -> Ensemble_similarities(ensemble, a) = Outcome
          [] last.op = "bipolar" ->
                Ensemble_projections_to_bipolar_dimensions(
                    ensemble, a.test, a.dimensions, a.normalize_before) = Outcome
          [] last.op = "unipolar" ->
                Ensemble_projections_to_unipolar_dimensions(
                    ensemble, a.test, a.dimensions, a.normalize_before) = Outcome
          [] last.op = "vocab" -> WordEmbedding_vocab(embedding, a.n_grams) = Outcome
          [] last.op = "vocab_size" -> vocab_size(embedding) = last.value
          [] last.op = "in_vocab" -> in_vocab(embedding, a.word) = last.value
          [] last.op = "context_in_training_data" ->
                context_in_training_data(embedding, a.word, a.n) = Outcome
          [] last.op = "frequency_in_training_data" ->
                frequency_in_training_data(embedding, a.word) = Outcome
          [] last.op = "sort_by_frequency_in_training_data" ->
                sort_by_frequency_in_training_data(embedding, a.list_of_words) = Outcome
          [] last.op = "vocab_sorted_by_frequency_in_training_data" ->
                vocab_sorted_by_frequency_in_training_data(
                    embedding, a.first_n, a.more_frequent_than) = Outcome
          [] last.op = "training_data_size" -> training_data_size(embedding) = Outcome
          [] last.op = "vector" -> WordEmbedding_vector(embedding, a.word) = Outcome
          [] last.op = "word_similarity" ->
                WordEmbedding_similarity(embedding, a.word1, a.word2) = Outcome
          [] last.op = "centroid_of_vectors" ->
                WordEmbedding_centroid_of_vectors(
                    embedding, a.list_of_words, a.normalize) = Outcome
          [] last.op = "difference_vector" ->
                WordEmbedding_difference_vector(
                    embedding, a.word1, a.word2, a.normalize) = Outcome
          [] last.op = "difference_vectors" ->
                WordEmbedding_difference_vectors(
                    embedding, a.list_of_word_pairs, a.normalize) = Outcome
          [] last.op = "centroid_of_difference_vectors" ->
                WordEmbedding_centroid_of_difference_vectors(
                    embedding, a.list_of_word_pairs, a.normalize_diffs,
                    a.normalize_centroid) = Outcome
          [] last.op = "projection" ->
                WordEmbedding_projection(embedding, a.test_word, a.word_pair) = Outcome
          [] last.op = "projections" ->
                WordEmbedding_projections(embedding, a.test_words, a.word_pairs) = Outcome
          [] last.op = "word_bipolar" ->
                WordEmbedding_projections_to_bipolar_dimensions(
                    embedding, a.test, a.dimensions, a.normalize_before,
                    a.normalize_centroids) = Outcome
          [] last.op = "word_unipolar" ->
                WordEmbedding_projections_to_unipolar_dimensions(
                    embedding, a.test, a.dimensions, a.normalize_before) = Outcome
          [] last.op = "most_similar" ->
                \E ranking \in Rankings(embedding.word_vectors, a.word) :
                    WordEmbedding_most_similar(embedding, a.word, a.n, ranking) = Outcome
          [] last.op = "least_similar" ->
                \E ranking \in Rankings(embedding.word_vectors, a.word) :
                    WordEmbedding_least_similar(embedding, a.word, a.n, ranking) = Outcome
          [] OTHER -> TRUE

\* a step that is an analysis operation leaves both objects as they were
AnalysisLeavesTheObjects ==
    last'.op \in AnalysisOperations => embedding' = embedding /\ ensemble' = ensemble

HasCorpus == embedding # NoEmbedding /\ ~embedding.training_data.is_none

\* the step is a call load_training_data(None)
LoadsNone == last'.op = "load_training_data" /\ last'.args.path_training_data = <<>>

\* C22: once a corpus is attached to a WordEmbedding, no later operation, a
\* further load_training_data included, replaces or modifies it; and
\* load_training_data(None) leaves the corpus state as it is
C22_AttachedCorpusIsNeverReplaced ==
    [][/\ HasCorpus => embedding'.training_data = embedding.training_data
       /\ LoadsNone => embedding'.training_data = embedding.training_data]_vars

\* what holds of the code: the corpus changes in no step but a
\* load_training_data of a file that can be read, which attaches that file's
\* sentences whether or not a corpus was attached before
C22_OnlyALoadThatReadsAFileReplaces ==
    [][/\ embedding'.training_data # embedding.training_data =>
            \/ last'.op = "new" /\ last'.exc = "none"
            \/ /\ last'.op = "load_training_data" /\ last'.exc = "none"
               /\ last'.args.path_training_data # <<>>
               /\ embedding'.training_data =
                    [is_none |-> FALSE,
                     docs |-> [i \in 1..Len(last'.args.text.lines) |->
                                  split(last'.args.text.lines[i], <<>>, <<>>)]]
       /\ LoadsNone => embedding' = embedding /\ last'.exc = "none"]_vars


\* ------------------------------------------------------------------ C23
\* one of the two ensemble projections has returned its table
ReturnedProjection == Returned("bipolar") \/ Returned("unipolar")

\* C23: in both ensemble projections every (test word, dimension) score of an
\* output row is aggregated from the score of at least one member; no row
\* carries a score aggregated over the empty set of members
C23_EveryScoreHasAMember ==
    ReturnedProjection =>
        \A k \in 1..Len(last.value.rows) :
            \A d \in 1..Len(last.value.rows[k].cells) :
                Len(last.value.rows[k].cells[d].used) > 0

\* what holds of the code: a row is emitted for every test word some member
\* has, and where none of those members is kept for a dimension the score is
\* the mean of an empty list, NaN
C23_EmptyAggregateIsNaN ==
    ReturnedProjection =>
        \A k \in 1..Len(last.value.rows) :
            /\ InSome(last.value.rows[k].test_word)
            /\ \A d \in 1..Len(last.value.rows[k].cells) :
                  LET cell == last.value.rows[k].cells[d]
                  IN  /\ \A j \in 1..Len(cell.used) :
                            in_vocab(Members[cell.used[j]], last.value.rows[k].test_word)
                      /\ Len(cell.used) = 0 => IsNaN(cell.mean)

============================================================================
